---- MODULE Spec2Model ----
(***************************************************************************)
(* Task-lifecycle <-> Google Calendar synchronisation of MyHandler.        *)
(* Times are instants in minutes.  Option<T> values are encoded as         *)
(* sequences: None is <<>>, Some(v) is <<v>>.                              *)
(***************************************************************************)
EXTENDS Integers, Sequences, FiniteSets, TLC

\* ---------------------------------------------------------------- bounds
MaxTime == 30
TickStep == 30
MaxEvents == 2
MaxCmds == 3

\* ------------------------------------------------------ program constants
BufferMinutes == 5
MaxPopupReminders == 4
EmailReminderMinutes == 60
MinutesPerHour == 60
MinutesPerDay == 1440

\* ------------------------------------------------------------ input sets
Threads == {"w1", "w2"}
MainThread == "w1"
TaskIds == {"t1", "t2"}       \* ids a command can name
StoredIds == {"t1"}           \* ids of the rows of table tasks
EventIds == 1..MaxEvents
TokenValues == {"tokA", "tokB"}
ExpiresIn == {4, 35}
DeadlineStrings == {"T+80", "garbage"}
FrequencyStrings == {"none", "hourly"}

None == <<>>
Some(v) == <<v>>
IsSome(o) == o # <<>>
Unwrap(o) == o[1]

\* ------------------------------------------------------ pure conversions
TruncDiv(a, b) == IF a >= 0 THEN a \div b ELSE -((-a) \div b)
Min(a, b) == IF a < b THEN a ELSE b
Max0(a) == IF a > 0 THEN a ELSE 0
num_hours(d) == TruncDiv(d, MinutesPerHour)
num_days(d) == TruncDiv(d, MinutesPerDay)

\* impl From<&str> for ReminderFrequency
ReminderFrequency_from_str(s) ==
    CASE s = "hourly" -> "Hourly"
      [] s = "every-3-hours" -> "Every3Hours"
      [] s = "daily" -> "Daily"
      [] OTHER -> "None"

\* impl From<ReminderFrequency> for String
String_from_ReminderFrequency(f) ==
    CASE f = "None" -> "none"
      [] f = "Hourly" -> "hourly"
      [] f = "Every3Hours" -> "every-3-hours"
      [] f = "Daily" -> "daily"

\* a parse that turns every unreadable string into the epoch
parse_deadline_lenient(s) ==
    CASE s = "T+80" -> Some(80)
      [] s = "T+200" -> Some(200)
      [] OTHER -> Some(0)

\* str::parse::<DateTime<Utc>>() on the deadline strings of the payloads
parse_deadline(s) ==
    CASE s = "T+80" -> Some(80)
      [] s = "T+200" -> Some(200)
      [] OTHER -> None

\* popups counted from the current time instead of from the deadline
Popups_from_now(n, interval) == [i \in 1..n |-> [method |-> "popup", minutes |-> (i - 1) * interval]]

Popups(n, interval) == [i \in 1..n |-> [method |-> "popup", minutes |-> i * interval]]

EmailReminder == [method |-> "email", minutes |-> EmailReminderMinutes]

\* update_reminders with "none" handled like the empty string
update_reminders_none_is_empty(reminder_frequency, deadline, now) ==
    IF reminder_frequency = "" \/ reminder_frequency = "none" THEN <<>>
    ELSE LET duration_until_deadline == deadline - now
             hours_until_deadline == num_hours(duration_until_deadline)
             popups ==
               CASE reminder_frequency = "hourly" ->
                      Popups(Min(Max0(hours_until_deadline), MaxPopupReminders), 60)
                 [] reminder_frequency = "every-3-hours" ->
                      Popups(Min(Max0(TruncDiv(hours_until_deadline, 3)), MaxPopupReminders), 180)
                 [] reminder_frequency = "daily" ->
                      Popups(Min(Max0(num_days(duration_until_deadline)), MaxPopupReminders), 1440)
                 [] OTHER -> <<>>
         IN  Append(popups, EmailReminder)

\* reminder list built by update_calendar_event
update_reminders(reminder_frequency, deadline, now) ==
    IF reminder_frequency = "" THEN <<>>
    ELSE LET duration_until_deadline == deadline - now
             hours_until_deadline == num_hours(duration_until_deadline)
             popups ==
               CASE reminder_frequency = "hourly" ->
                      Popups(Min(Max0(hours_until_deadline), MaxPopupReminders), 60)
                 [] reminder_frequency = "every-3-hours" ->
                      Popups(Min(Max0(TruncDiv(hours_until_deadline, 3)), MaxPopupReminders), 180)
                 [] reminder_frequency = "daily" ->
                      Popups(Min(Max0(num_days(duration_until_deadline)), MaxPopupReminders), 1440)
                 [] OTHER -> <<>>
         IN  Append(popups, EmailReminder)

\* reminder list built by create_calendar_event (the same code, duplicated)
create_reminders(reminder_frequency, deadline, now) ==
    IF reminder_frequency = "" THEN <<>>
    ELSE LET duration_until_deadline == deadline - now
             hours_until_deadline == num_hours(duration_until_deadline)
             popups ==
               CASE reminder_frequency = "hourly" ->
                      Popups(Min(Max0(hours_until_deadline), MaxPopupReminders), 60)
                 [] reminder_frequency = "every-3-hours" ->
                      Popups(Min(Max0(TruncDiv(hours_until_deadline, 3)), MaxPopupReminders), 180)
                 [] reminder_frequency = "daily" ->
                      Popups(Min(Max0(num_days(duration_until_deadline)), MaxPopupReminders), 1440)
                 [] OTHER -> <<>>
         IN  Append(popups, EmailReminder)


\* ------------------------------------------------------------------ state
VARIABLES
    tasks,      \* table tasks: task id -> Option(row)
    link,       \* table calendar_events: task id -> Option(google event id)
    creds,      \* table calendar_credentials: Option(record)
    remote,     \* Google Calendar: event id -> whether the event exists
    nextId,     \* next event id the remote API hands out
    clock,      \* Utc::now()
    lock,       \* Database.conn mutex: "free" or the thread holding the guard
    pc,         \* thread -> position
    loc,        \* thread -> locals of the running invocation
    probe,      \* input/output of the pure-function specifications
    cmds        \* commands begun so far (counted where the run is bounded by it)

vars == <<tasks, link, creds, remote, nextId, clock, lock, pc, loc, probe, cmds>>

\* Task::new followed by insert
Task_new(title, created_at) ==
    [title |-> title, notes |-> None, status |-> "not-started",
     deadline |-> None,
     has_calendar_integration |-> FALSE, calendar_email |-> None,
     reminder_frequency |-> String_from_ReminderFrequency("None"),
     started_at |-> None, paused_at |-> None, completed_at |-> None]

\* Task::from_row: the reminder_frequency column goes through FromSql
from_row(row) ==
    [row EXCEPT !.reminder_frequency = ReminderFrequency_from_str(row.reminder_frequency)]

\* db/sql/update_status_*.sql: status and the transition's timestamp
\* (the updated_at column, rewritten by every write, is left out of the row)
status_sql(row, new_status, now) ==
    LET r == [row EXCEPT !.status = new_status]
    IN  CASE new_status = "ongoing" -> [r EXCEPT !.started_at = Some(now)]
          [] new_status = "paused" -> [r EXCEPT !.paused_at = Some(now)]
          [] new_status = "completed" -> [r EXCEPT !.completed_at = Some(now)]
          [] OTHER -> r

\* update_task_status writing the status column only
update_task_status_untimed(ts, task_id, new_status, now) ==
    IF ts[task_id] = None
    THEN [ok |-> FALSE, tasks |-> ts, task |-> None]
    ELSE LET row == [Unwrap(ts[task_id]) EXCEPT !.status = new_status]
         IN  [ok |-> TRUE, tasks |-> [ts EXCEPT ![task_id] = Some(row)],
              task |-> Some(from_row(row))]

\* update_task_status switching the integration off when the task completes
update_task_status_disabling(ts, task_id, new_status, now) ==
    IF ts[task_id] = None
    THEN [ok |-> FALSE, tasks |-> ts, task |-> None]
    ELSE LET r == status_sql(Unwrap(ts[task_id]), new_status, now)
             row == IF new_status = "completed"
                    THEN [r EXCEPT !.has_calendar_integration = FALSE]
                    ELSE r
         IN  [ok |-> TRUE, tasks |-> [ts EXCEPT ![task_id] = Some(row)],
              task |-> Some(from_row(row))]

\* db::update_task_status
update_task_status(ts, task_id, new_status, now) ==
    IF ts[task_id] = None
    THEN [ok |-> FALSE, tasks |-> ts, task |-> None]
    ELSE LET row == status_sql(Unwrap(ts[task_id]), new_status, now)
         IN  [ok |-> TRUE, tasks |-> [ts EXCEPT ![task_id] = Some(row)],
              task |-> Some(from_row(row))]

\* db::get_task_by_id
get_task_by_id(ts, task_id) ==
    IF ts[task_id] = None THEN None ELSE Some(from_row(Unwrap(ts[task_id])))

\* db::get_task_google_event_id
get_task_google_event_id(lk, task_id) == lk[task_id]

\* db::clear_task_google_event_id
clear_task_google_event_id(lk, task_id) == [lk EXCEPT ![task_id] = None]

\* db::update_task_google_event_id (upsert_calendar_event.sql, row keyed by an existing task)
update_task_google_event_id(ts, lk, task_id, event_id) ==
    IF ts[task_id] = None THEN lk ELSE [lk EXCEPT ![task_id] = Some(event_id)]

\* db/sql/delete_task_by_id.sql: removes the row and, by cascade, its calendar_events row
delete_task_by_id(ts, lk, task_id) ==
    [rows |-> IF ts[task_id] = None THEN 0 ELSE 1,
     tasks |-> [ts EXCEPT ![task_id] = None],
     link |-> [lk EXCEPT ![task_id] = None]]

\* db::get_calendar_credentials: an empty email or access token reads as absence
get_calendar_credentials(c) ==
    IF c = None THEN None
    ELSE IF Unwrap(c).email = "" \/ Unwrap(c).access_token = "" THEN None
    ELSE c

\* payload conversion of notes / calendar_email: "" clears the column
nullable(o) == IF o = None THEN None ELSE IF Unwrap(o) = "" THEN Some(None) ELSE Some(o)

\* TaskUpdateParsed built by update_task
\* TaskUpdateParsed writing NULL for a deadline the payload omits
TaskUpdateParsed_clearing_deadline(data, deadline) ==
    [title |-> data.title,
     notes |-> nullable(data.notes),
     deadline |-> IF deadline = None THEN Some(None) ELSE deadline,
     has_calendar_integration |-> data.has_calendar_integration,
     calendar_email |-> nullable(data.calendar_email),
     reminder_frequency |-> data.reminder_frequency]

TaskUpdateParsed(data, deadline) ==
    [title |-> data.title,
     notes |-> nullable(data.notes),
     deadline |-> deadline,
     has_calendar_integration |-> data.has_calendar_integration,
     calendar_email |-> nullable(data.calendar_email),
     reminder_frequency |-> data.reminder_frequency]

\* db::update_task writing NULL into every nullable column the payload omits
db_update_task_nulling(row, u) ==
    [title |-> IF IsSome(u.title) THEN Unwrap(u.title) ELSE row.title,
     notes |-> IF IsSome(u.notes) THEN Unwrap(u.notes) ELSE None,
     status |-> row.status,
     deadline |-> IF IsSome(u.deadline) THEN Unwrap(u.deadline) ELSE row.deadline,
     has_calendar_integration |->
        IF IsSome(u.has_calendar_integration) THEN Unwrap(u.has_calendar_integration)
        ELSE row.has_calendar_integration,
     calendar_email |-> IF IsSome(u.calendar_email) THEN Unwrap(u.calendar_email)
                        ELSE None,
     reminder_frequency |-> IF IsSome(u.reminder_frequency) THEN Unwrap(u.reminder_frequency)
                            ELSE row.reminder_frequency,
     started_at |-> None, paused_at |-> None,
     completed_at |-> None]

\* db::update_task with the Updatable derive: only the Some(..) columns are written
db_update_task(row, u) ==
    [title |-> IF IsSome(u.title) THEN Unwrap(u.title) ELSE row.title,
     notes |-> IF IsSome(u.notes) THEN Unwrap(u.notes) ELSE row.notes,
     status |-> row.status,
     deadline |-> IF IsSome(u.deadline) THEN Unwrap(u.deadline) ELSE row.deadline,
     has_calendar_integration |->
        IF IsSome(u.has_calendar_integration) THEN Unwrap(u.has_calendar_integration)
        ELSE row.has_calendar_integration,
     calendar_email |-> IF IsSome(u.calendar_email) THEN Unwrap(u.calendar_email)
                        ELSE row.calendar_email,
     reminder_frequency |-> IF IsSome(u.reminder_frequency) THEN Unwrap(u.reminder_frequency)
                            ELSE row.reminder_frequency,
     started_at |-> row.started_at, paused_at |-> row.paused_at,
     completed_at |-> row.completed_at]

\* locals of a thread that runs nothing; `from` (the status found by a status
\* command) and `now` (the instant of its write) are kept for stating properties;
\* `status` is the HTTP status of the answer to the event request, 0 when the
\* request got no answer
IdleLoc ==
    [op |-> "none", id |-> "", was_enabled |-> FALSE,
     from |-> "", now |-> 0,
     ev |-> None, enabled |-> FALSE, dl |-> None, freq |-> "", kind |-> "",
     cr |-> None, tok |-> "", status |-> 0, svcres |-> "", newid |-> None, res |-> "",
     svcs |-> <<>>, calls |-> <<>>, nxt |-> ""]

NoProbe == [fn |-> "", freq |-> "", deadline |-> 0, now |-> 0, out |-> None]

Init ==
    /\ tasks = [t \in TaskIds |-> IF t \in StoredIds THEN Some(Task_new("A", 0)) ELSE None]
    /\ link = [t \in TaskIds |-> None]
    /\ creds = None
    /\ remote = [e \in EventIds |-> FALSE]
    /\ nextId = 1
    /\ clock = 0
    /\ lock = "free"
    /\ pc = [th \in Threads |-> "idle"]
    /\ loc = [th \in Threads |-> IdleLoc]
    /\ probe = NoProbe
    /\ cmds = 0


\* ------------------------------------------------------- thread plumbing
SetLoc(th, l) == loc' = [loc EXCEPT ![th] = l]
Goto(th, p) == pc' = [pc EXCEPT ![th] = p]

\* Database::get_connection: blocks until the mutex is free, then holds the guard
get_connection(th) == lock = "free" /\ lock' = th

\* a section run under the guard ends in "held"; the guard is dropped by DropGuard
Held(th, l, next) ==
    /\ get_connection(th)
    /\ SetLoc(th, [l EXCEPT !.nxt = next])
    /\ Goto(th, "held")

\* end of the scope that owns `conn`: the MutexGuard is dropped
DropGuard(th) ==
    /\ pc[th] = "held"
    /\ lock = th
    /\ lock' = "free"
    /\ Goto(th, loc[th].nxt)
    /\ UNCHANGED <<tasks, link, creds, remote, nextId, clock, loc, probe>>

StatusOf(ts, id) == IF ts[id] = None THEN "" ELSE Unwrap(ts[id]).status

\* ------------------------------------------------------------ task_service
\* pause_task passing the stored frequency
pause_frequency_stored(task) == String_from_ReminderFrequency(task.reminder_frequency)

\* the frequency pause_task passes to update_task_calendar_event
pause_frequency(task) == ""

\* resume_task passing the empty frequency
resume_frequency_empty(task) == ""

\* the frequency resume_task passes to update_task_calendar_event
resume_frequency(task) == String_from_ReminderFrequency(task.reminder_frequency)

\* scope 1 of pause_task / resume_task: status write, then the linked event id
StatusScope(th, id, opname, new_status, errmsg) ==
    /\ pc[th] = "idle"
    /\ LET r == update_task_status(tasks, id, new_status, clock)
           event_id == get_task_google_event_id(link, id)
           base == [IdleLoc EXCEPT !.op = opname, !.id = id,
                                   !.from = StatusOf(tasks, id), !.now = clock]
       IN  /\ tasks' = r.tasks
           /\ IF ~r.ok
              THEN Held(th, [base EXCEPT !.res = errmsg], "done")
              ELSE LET task == Unwrap(r.task)
                       l == [base EXCEPT !.ev = event_id, !.res = "ok"]
                   IN  IF IsSome(event_id) /\ IsSome(task.deadline)
                       THEN Held(th, [l EXCEPT !.kind = "update", !.dl = task.deadline,
                                               !.freq = IF opname = "pause_task"
                                                        THEN pause_frequency(task)
                                                        ELSE resume_frequency(task)], "svc")
                       ELSE Held(th, l, "done")
    /\ UNCHANGED <<link, creds, remote, nextId, clock, probe>>

\* start_task written like resume_task
start_task_restoring(th, id) ==
    StatusScope(th, id, "start_task", "ongoing", "Failed to start task")

start_task(th, id) ==
    /\ pc[th] = "idle"
    /\ LET r == update_task_status(tasks, id, "ongoing", clock)
       IN  /\ tasks' = r.tasks
           /\ Held(th, [IdleLoc EXCEPT !.op = "start_task", !.id = id,
                           !.from = StatusOf(tasks, id), !.now = clock,
                           !.res = IF r.ok THEN "ok" ELSE "Failed to start task"], "done")
    /\ UNCHANGED <<link, creds, remote, nextId, clock, probe>>

pause_task(th, id) ==
    StatusScope(th, id, "pause_task", "paused", "Failed to pause task")

resume_task(th, id) ==
    StatusScope(th, id, "resume_task", "ongoing", "Failed to resume task")

\* pause_task / resume_task treating not-found like any other failure
pause_resume_result_no_heal(th) ==
    /\ pc[th] = "result"
    /\ loc[th].op \in {"pause_task", "resume_task"}
    /\ Goto(th, "done")
    /\ UNCHANGED <<tasks, link, creds, remote, nextId, clock, lock, loc, probe>>

\* the match on the result of update_task_calendar_event in pause_task / resume_task
pause_resume_result(th) ==
    /\ pc[th] = "result"
    /\ loc[th].op \in {"pause_task", "resume_task"}
    /\ IF loc[th].svcres = "EVENT_NOT_FOUND"
       THEN /\ link' = clear_task_google_event_id(link, loc[th].id)
            /\ Held(th, loc[th], "done")
       ELSE /\ Goto(th, "done")
            /\ UNCHANGED <<link, lock, loc>>
    /\ UNCHANGED <<tasks, creds, remote, nextId, clock, probe>>

complete_task(th, id) ==
    /\ pc[th] = "idle"
    /\ LET r == update_task_status(tasks, id, "completed", clock)
           event_id == get_task_google_event_id(link, id)
           base == [IdleLoc EXCEPT !.op = "complete_task", !.id = id,
                                   !.from = StatusOf(tasks, id), !.now = clock]
       IN  /\ tasks' = r.tasks
           /\ IF ~r.ok
              THEN Held(th, [base EXCEPT !.res = "Failed to complete task"], "done")
              ELSE LET l == [base EXCEPT !.ev = event_id, !.res = "ok"]
                   IN  IF IsSome(event_id)
                       THEN Held(th, [l EXCEPT !.kind = "delete"], "svc")
                       ELSE Held(th, l, "done")
    /\ UNCHANGED <<link, creds, remote, nextId, clock, probe>>

\* complete_task after delete_task_calendar_event: the link is cleared in the else branch
complete_task_result(th) ==
    /\ pc[th] = "result"
    /\ loc[th].op = "complete_task"
    /\ IF loc[th].svcres = "ok"
       THEN /\ link' = clear_task_google_event_id(link, loc[th].id)
            /\ Held(th, loc[th], "done")
       ELSE /\ Goto(th, "done")
            /\ UNCHANGED <<link, lock, loc>>
    /\ UNCHANGED <<tasks, creds, remote, nextId, clock, probe>>

\* scope 1 of delete_task: only the linked event id is read
delete_task(th, id) ==
    /\ pc[th] = "idle"
    /\ LET event_id == get_task_google_event_id(link, id)
           l == [IdleLoc EXCEPT !.op = "delete_task", !.id = id, !.ev = event_id]
       IN  IF IsSome(event_id)
           THEN Held(th, [l EXCEPT !.kind = "delete"], "svc")
           ELSE Held(th, l, "scope2")
    /\ UNCHANGED <<tasks, link, creds, remote, nextId, clock, probe>>

\* delete_task giving up when the remote delete failed
delete_task_scope2_aborting(th) ==
    /\ loc[th].op = "delete_task"
    /\ pc[th] \in {"result", "scope2"}
    /\ IF pc[th] = "result" /\ loc[th].svcres # "ok"
       THEN /\ SetLoc(th, [loc[th] EXCEPT !.res = "Failed to delete calendar event"])
            /\ Goto(th, "done")
            /\ UNCHANGED <<tasks, link, lock>>
       ELSE LET d == delete_task_by_id(tasks, link, loc[th].id)
            IN  /\ tasks' = d.tasks
                /\ link' = d.link
                /\ Held(th, [loc[th] EXCEPT !.res = IF d.rows = 0 THEN "Task not found" ELSE "ok"],
                        "done")
    /\ UNCHANGED <<creds, remote, nextId, clock, probe>>

\* delete_task that does not look at the number of deleted rows
delete_task_scope2_rows_ignored(th) ==
    /\ loc[th].op = "delete_task"
    /\ pc[th] \in {"result", "scope2"}
    /\ LET d == delete_task_by_id(tasks, link, loc[th].id)
       IN  /\ tasks' = d.tasks
           /\ link' = d.link
           /\ Held(th, [loc[th] EXCEPT !.res = "ok"], "done")
    /\ UNCHANGED <<creds, remote, nextId, clock, probe>>

\* delete_task deleting the row but leaving the linked event id of a failed remote delete
delete_task_scope2_keeping_link(th) ==
    /\ loc[th].op = "delete_task"
    /\ pc[th] \in {"result", "scope2"}
    /\ LET d == delete_task_by_id(tasks, link, loc[th].id)
       IN  /\ tasks' = d.tasks
           /\ link' = IF pc[th] = "result" /\ loc[th].svcres # "ok" THEN link ELSE d.link
           /\ Held(th, [loc[th] EXCEPT !.res = IF d.rows = 0 THEN "Task not found" ELSE "ok"],
                   "done")
    /\ UNCHANGED <<creds, remote, nextId, clock, probe>>

\* scope 2 of delete_task: the row is deleted whatever the remote delete answered
delete_task_scope2(th) ==
    /\ loc[th].op = "delete_task"
    /\ pc[th] \in {"result", "scope2"}
    /\ LET d == delete_task_by_id(tasks, link, loc[th].id)
       IN  /\ tasks' = d.tasks
           /\ link' = d.link
           /\ Held(th, [loc[th] EXCEPT !.res = IF d.rows = 0 THEN "Task not found" ELSE "ok"],
                   "done")
    /\ UNCHANGED <<creds, remote, nextId, clock, probe>>


\* update_task sending the stored frequency even when the payload brings one
update_task_prior_frequency(th, id, data) ==
    /\ pc[th] = "idle"
    /\ LET base == [IdleLoc EXCEPT !.op = "update_task", !.id = id]
           current == get_task_by_id(tasks, id)
           current_event_id == get_task_google_event_id(link, id)
           parsed == IF IsSome(data.deadline) THEN parse_deadline(Unwrap(data.deadline)) ELSE None
       IN  IF current = None
           THEN /\ Held(th, [base EXCEPT !.res = "Failed to get current task"], "done")
                /\ UNCHANGED tasks
           ELSE IF IsSome(data.deadline) /\ parsed = None
           THEN /\ Held(th, [base EXCEPT !.res = "Invalid deadline format"], "done")
                /\ UNCHANGED tasks
           ELSE LET current_task == Unwrap(current)
                    deadline == IF IsSome(data.deadline) THEN Some(parsed) ELSE None
                    default_freq == String_from_ReminderFrequency(current_task.reminder_frequency)
                    reminder_freq_for_event == default_freq
                    update_data == TaskUpdateParsed(data, deadline)
                    row == db_update_task(Unwrap(tasks[id]), update_data)
                    calendar_enabled ==
                        IF IsSome(data.has_calendar_integration)
                        THEN Unwrap(data.has_calendar_integration)
                        ELSE current_task.has_calendar_integration
                    new_deadline ==
                        IF IsSome(deadline) /\ IsSome(Unwrap(deadline)) THEN Unwrap(deadline)
                        ELSE current_task.deadline
                    l == [base EXCEPT !.was_enabled = current_task.has_calendar_integration,
                                      !.ev = current_event_id, !.enabled = calendar_enabled,
                                      !.dl = new_deadline, !.freq = reminder_freq_for_event]
                IN  /\ tasks' = [tasks EXCEPT ![id] = Some(row)]
                    /\ IF calendar_enabled /\ IsSome(new_deadline)
                       THEN IF IsSome(current_event_id)
                            THEN Held(th, [l EXCEPT !.kind = "update"], "svc")
                            ELSE Held(th, [l EXCEPT !.kind = "create"], "svc")
                       ELSE IF ~calendar_enabled /\ IsSome(current_event_id)
                            THEN Held(th, [l EXCEPT !.kind = "delete"], "svc")
                            ELSE Held(th, l, "reread")
    /\ UNCHANGED <<link, creds, remote, nextId, clock, probe>>

\* update_task syncing an enabled task that has no deadline
update_task_create_without_deadline(th, id, data) ==
    /\ pc[th] = "idle"
    /\ LET base == [IdleLoc EXCEPT !.op = "update_task", !.id = id]
           current == get_task_by_id(tasks, id)
           current_event_id == get_task_google_event_id(link, id)
           parsed == IF IsSome(data.deadline) THEN parse_deadline(Unwrap(data.deadline)) ELSE None
       IN  IF current = None
           THEN /\ Held(th, [base EXCEPT !.res = "Failed to get current task"], "done")
                /\ UNCHANGED tasks
           ELSE IF IsSome(data.deadline) /\ parsed = None
           THEN /\ Held(th, [base EXCEPT !.res = "Invalid deadline format"], "done")
                /\ UNCHANGED tasks
           ELSE LET current_task == Unwrap(current)
                    deadline == IF IsSome(data.deadline) THEN Some(parsed) ELSE None
                    default_freq == String_from_ReminderFrequency(current_task.reminder_frequency)
                    reminder_freq_for_event ==
                        IF IsSome(data.reminder_frequency) THEN Unwrap(data.reminder_frequency)
                        ELSE default_freq
                    update_data == TaskUpdateParsed(data, deadline)
                    row == db_update_task(Unwrap(tasks[id]), update_data)
                    calendar_enabled ==
                        IF IsSome(data.has_calendar_integration)
                        THEN Unwrap(data.has_calendar_integration)
                        ELSE current_task.has_calendar_integration
                    new_deadline ==
                        IF IsSome(deadline) /\ IsSome(Unwrap(deadline)) THEN Unwrap(deadline)
                        ELSE current_task.deadline
                    l == [base EXCEPT !.was_enabled = current_task.has_calendar_integration,
                                      !.ev = current_event_id, !.enabled = calendar_enabled,
                                      !.dl = new_deadline, !.freq = reminder_freq_for_event]
                IN  /\ tasks' = [tasks EXCEPT ![id] = Some(row)]
                    /\ IF calendar_enabled
                       THEN IF IsSome(current_event_id)
                            THEN Held(th, [l EXCEPT !.kind = "update"], "svc")
                            ELSE Held(th, [l EXCEPT !.kind = "create"], "svc")
                       ELSE IF ~calendar_enabled /\ IsSome(current_event_id)
                            THEN Held(th, [l EXCEPT !.kind = "delete"], "svc")
                            ELSE Held(th, l, "reread")
    /\ UNCHANGED <<link, creds, remote, nextId, clock, probe>>

\* scope 1 of update_task: read the current state, write the supplied columns,
\* compute the calendar intent
update_task(th, id, data) ==
    /\ pc[th] = "idle"
    /\ LET base == [IdleLoc EXCEPT !.op = "update_task", !.id = id]
           current == get_task_by_id(tasks, id)
           current_event_id == get_task_google_event_id(link, id)
           parsed == IF IsSome(data.deadline) THEN parse_deadline(Unwrap(data.deadline)) ELSE None
       IN  IF current = None
           THEN /\ Held(th, [base EXCEPT !.res = "Failed to get current task"], "done")
                /\ UNCHANGED tasks
           ELSE IF IsSome(data.deadline) /\ parsed = None
           THEN /\ Held(th, [base EXCEPT !.res = "Invalid deadline format"], "done")
                /\ UNCHANGED tasks
           ELSE LET current_task == Unwrap(current)
                    deadline == IF IsSome(data.deadline) THEN Some(parsed) ELSE None
                    default_freq == String_from_ReminderFrequency(current_task.reminder_frequency)
                    reminder_freq_for_event ==
                        IF IsSome(data.reminder_frequency) THEN Unwrap(data.reminder_frequency)
                        ELSE default_freq
                    update_data == TaskUpdateParsed(data, deadline)
                    row == db_update_task(Unwrap(tasks[id]), update_data)
                    calendar_enabled ==
                        IF IsSome(data.has_calendar_integration)
                        THEN Unwrap(data.has_calendar_integration)
                        ELSE current_task.has_calendar_integration
                    new_deadline ==
                        IF IsSome(deadline) /\ IsSome(Unwrap(deadline)) THEN Unwrap(deadline)
                        ELSE current_task.deadline
                    l == [base EXCEPT !.was_enabled = current_task.has_calendar_integration,
                                      !.ev = current_event_id, !.enabled = calendar_enabled,
                                      !.dl = new_deadline, !.freq = reminder_freq_for_event]
                IN  /\ tasks' = [tasks EXCEPT ![id] = Some(row)]
                    /\ IF calendar_enabled /\ IsSome(new_deadline)
                       THEN IF IsSome(current_event_id)
                            THEN Held(th, [l EXCEPT !.kind = "update"], "svc")
                            ELSE Held(th, [l EXCEPT !.kind = "create"], "svc")
                       ELSE IF ~calendar_enabled /\ IsSome(current_event_id)
                            THEN Held(th, [l EXCEPT !.kind = "delete"], "svc")
                            ELSE Held(th, l, "reread")
    /\ UNCHANGED <<link, creds, remote, nextId, clock, probe>>

\* update_task_result dropping the id a successful create returned
update_task_result_drop_created_id(th) ==
    /\ pc[th] = "result"
    /\ loc[th].op = "update_task"
    /\ LET l == loc[th]
       IN  CASE l.kind = "update" ->
                  IF l.svcres = "EVENT_NOT_FOUND"
                  THEN /\ link' = clear_task_google_event_id(link, l.id)
                       /\ Held(th, l, "reread")
                  ELSE /\ Goto(th, "reread")
                       /\ UNCHANGED <<link, lock, loc>>
             [] l.kind = "create" ->
                  IF l.svcres = "ok"
                  THEN /\ Goto(th, "reread")
                       /\ UNCHANGED <<link, lock, loc>>
                  ELSE /\ SetLoc(th, [l EXCEPT !.res = "Failed to create calendar event"])
                       /\ Goto(th, "done")
                       /\ UNCHANGED <<link, lock>>
             [] l.kind = "delete" ->
                  /\ link' = clear_task_google_event_id(link, l.id)
                  /\ Held(th, l, "reread")
    /\ UNCHANGED <<tasks, creds, remote, nextId, clock, probe>>

\* update_task_result clearing the link of a disabled task only when the delete succeeded
update_task_result_keep_on_failure(th) ==
    /\ pc[th] = "result"
    /\ loc[th].op = "update_task"
    /\ LET l == loc[th]
       IN  CASE l.kind = "update" ->
                  IF l.svcres = "EVENT_NOT_FOUND"
                  THEN /\ link' = clear_task_google_event_id(link, l.id)
                       /\ Held(th, l, "reread")
                  ELSE /\ Goto(th, "reread")
                       /\ UNCHANGED <<link, lock, loc>>
             [] l.kind = "create" ->
                  IF l.svcres = "ok"
                  THEN /\ link' = update_task_google_event_id(tasks, link, l.id, Unwrap(l.newid))
                       /\ Held(th, l, "reread")
                  ELSE /\ SetLoc(th, [l EXCEPT !.res = "Failed to create calendar event"])
                       /\ Goto(th, "done")
                       /\ UNCHANGED <<link, lock>>
             [] l.kind = "delete" ->
                  IF l.svcres = "ok"
                  THEN /\ link' = clear_task_google_event_id(link, l.id)
                       /\ Held(th, l, "reread")
                  ELSE /\ Goto(th, "reread")
                       /\ UNCHANGED <<link, lock, loc>>
    /\ UNCHANGED <<tasks, creds, remote, nextId, clock, probe>>

\* update_task_result logging a failed create instead of returning it
update_task_result_swallow_create(th) ==
    /\ pc[th] = "result"
    /\ loc[th].op = "update_task"
    /\ LET l == loc[th]
       IN  CASE l.kind = "update" ->
                  IF l.svcres = "EVENT_NOT_FOUND"
                  THEN /\ link' = clear_task_google_event_id(link, l.id)
                       /\ Held(th, l, "reread")
                  ELSE /\ Goto(th, "reread")
                       /\ UNCHANGED <<link, lock, loc>>
             [] l.kind = "create" ->
                  IF l.svcres = "ok"
                  THEN /\ link' = update_task_google_event_id(tasks, link, l.id, Unwrap(l.newid))
                       /\ Held(th, l, "reread")
                  ELSE /\ Goto(th, "reread")
                       /\ UNCHANGED <<link, lock, loc>>
             [] l.kind = "delete" ->
                  /\ link' = clear_task_google_event_id(link, l.id)
                  /\ Held(th, l, "reread")
    /\ UNCHANGED <<tasks, creds, remote, nextId, clock, probe>>

\* update_task after the calendar call: commit the outcome to calendar_events
\* update_task_result failing the command and clearing the link on any update error
update_task_result_strict_update(th) ==
    /\ pc[th] = "result"
    /\ loc[th].op = "update_task"
    /\ LET l == loc[th]
       IN  CASE l.kind = "update" ->
                  IF l.svcres = "EVENT_NOT_FOUND"
                  THEN /\ link' = clear_task_google_event_id(link, l.id)
                       /\ Held(th, l, "reread")
                  ELSE IF l.svcres = "ok"
                  THEN /\ Goto(th, "reread")
                       /\ UNCHANGED <<link, lock, loc>>
                  ELSE /\ link' = clear_task_google_event_id(link, l.id)
                       /\ Held(th, [l EXCEPT !.res = "Failed to update calendar event"], "done")
             [] l.kind = "create" ->
                  IF l.svcres = "ok"
                  THEN /\ link' = update_task_google_event_id(tasks, link, l.id, Unwrap(l.newid))
                       /\ Held(th, l, "reread")
                  ELSE /\ SetLoc(th, [l EXCEPT !.res = "Failed to create calendar event"])
                       /\ Goto(th, "done")
                       /\ UNCHANGED <<link, lock>>
             [] l.kind = "delete" ->
                  /\ link' = clear_task_google_event_id(link, l.id)
                  /\ Held(th, l, "reread")
    /\ UNCHANGED <<tasks, creds, remote, nextId, clock, probe>>

\* update_task_result storing the id the next create would get when the create failed
update_task_result_speculative(th) ==
    /\ pc[th] = "result"
    /\ loc[th].op = "update_task"
    /\ LET l == loc[th]
       IN  CASE l.kind = "update" ->
                  IF l.svcres = "EVENT_NOT_FOUND"
                  THEN /\ link' = clear_task_google_event_id(link, l.id)
                       /\ Held(th, l, "reread")
                  ELSE /\ Goto(th, "reread")
                       /\ UNCHANGED <<link, lock, loc>>
             [] l.kind = "create" ->
                  IF l.svcres = "ok"
                  THEN /\ link' = update_task_google_event_id(tasks, link, l.id, Unwrap(l.newid))
                       /\ Held(th, l, "reread")
                  ELSE /\ link' = update_task_google_event_id(tasks, link, l.id, nextId)
                       /\ Held(th, [l EXCEPT !.res = "Failed to create calendar event"], "done")
             [] l.kind = "delete" ->
                  /\ link' = clear_task_google_event_id(link, l.id)
                  /\ Held(th, l, "reread")
    /\ UNCHANGED <<tasks, creds, remote, nextId, clock, probe>>

update_task_result(th) ==
    /\ pc[th] = "result"
    /\ loc[th].op = "update_task"
    /\ LET l == loc[th]
       IN  CASE l.kind = "update" ->
                  IF l.svcres = "EVENT_NOT_FOUND"
                  THEN /\ link' = clear_task_google_event_id(link, l.id)
                       /\ Held(th, l, "reread")
                  ELSE /\ Goto(th, "reread")
                       /\ UNCHANGED <<link, lock, loc>>
             [] l.kind = "create" ->
                  IF l.svcres = "ok"
                  THEN /\ link' = update_task_google_event_id(tasks, link, l.id, Unwrap(l.newid))
                       /\ Held(th, l, "reread")
                  ELSE /\ SetLoc(th, [l EXCEPT !.res = "Failed to create calendar event"])
                       /\ Goto(th, "done")
                       /\ UNCHANGED <<link, lock>>
             [] l.kind = "delete" ->
                  /\ link' = clear_task_google_event_id(link, l.id)
                  /\ Held(th, l, "reread")
    /\ UNCHANGED <<tasks, creds, remote, nextId, clock, probe>>

\* the final get_task_by_id of update_task
update_task_reread(th) ==
    /\ pc[th] = "reread"
    /\ LET t == get_task_by_id(tasks, loc[th].id)
       IN  Held(th, [loc[th] EXCEPT
                        !.res = IF t = None THEN "Failed to get updated task" ELSE "ok"], "done")
    /\ UNCHANGED <<tasks, link, creds, remote, nextId, clock, probe>>

\* -------------------------------------------------------- calendar_service
\* get_credentials whose guard outlives the call
get_credentials_keeping_guard(th) ==
    /\ pc[th] = "svc"
    /\ get_connection(th)
    /\ SetLoc(th, [loc[th] EXCEPT !.cr = get_calendar_credentials(creds),
                                 !.svcs = Append(@, loc[th].kind)])
    /\ Goto(th, "token")
    /\ UNCHANGED <<tasks, link, creds, remote, nextId, clock, probe>>

\* create/update/delete_task_calendar_event enter get_valid_access_token -> get_credentials
get_credentials(th) ==
    /\ pc[th] = "svc"
    /\ Held(th, [loc[th] EXCEPT !.cr = get_calendar_credentials(creds),
                               !.svcs = Append(@, loc[th].kind)], "token")
    /\ UNCHANGED <<tasks, link, creds, remote, nextId, clock, probe>>

\* the buffer test with <= in place of <
needs_refresh_inclusive(token_expiry, now) == token_expiry - BufferMinutes <= now

\* the 5 minute buffer test of get_valid_access_token
needs_refresh(token_expiry, now) == token_expiry - BufferMinutes < now

\* the request of create/update/delete_calendar_event: the reminders are
\* computed from Utc::now() when the body is built
Request(l, now) ==
    [kind |-> l.kind, ev |-> l.ev,
     reminders |-> CASE l.kind = "create" -> create_reminders(l.freq, Unwrap(l.dl), now)
                     [] l.kind = "update" -> update_reminders(l.freq, Unwrap(l.dl), now)
                     [] OTHER -> <<>>]

RefreshRequest == [kind |-> "refresh", ev |-> None, reminders |-> <<>>]

\* get_valid_access_token asking for a refresh before it looks at the credential
get_valid_access_token_refresh_first(th) ==
    /\ pc[th] = "token"
    /\ LET l == loc[th]
       IN  IF l.cr = None
           THEN /\ SetLoc(th, [l EXCEPT !.svcres = "No calendar credentials found",
                                        !.calls = Append(@, RefreshRequest)])
                /\ Goto(th, "result")
           ELSE IF needs_refresh(Unwrap(l.cr).token_expiry, clock)
           THEN /\ SetLoc(th, [l EXCEPT !.calls = Append(@, RefreshRequest)])
                /\ Goto(th, "refresh")
           ELSE /\ SetLoc(th, [l EXCEPT !.tok = Unwrap(l.cr).access_token,
                                        !.calls = Append(@, Request(l, clock))])
                /\ Goto(th, "http")
    /\ UNCHANGED <<tasks, link, creds, remote, nextId, clock, lock, probe>>

\* get_valid_access_token after get_credentials: fail, refresh, or use the
\* stored token for the event request
get_valid_access_token(th) ==
    /\ pc[th] = "token"
    /\ LET l == loc[th]
       IN  IF l.cr = None
           THEN /\ SetLoc(th, [l EXCEPT !.svcres = "No calendar credentials found"])
                /\ Goto(th, "result")
           ELSE IF needs_refresh(Unwrap(l.cr).token_expiry, clock)
           THEN /\ SetLoc(th, [l EXCEPT !.calls = Append(@, RefreshRequest)])
                /\ Goto(th, "refresh")
           ELSE /\ SetLoc(th, [l EXCEPT !.tok = Unwrap(l.cr).access_token,
                                        !.calls = Append(@, Request(l, clock))])
                /\ Goto(th, "http")
    /\ UNCHANGED <<tasks, link, creds, remote, nextId, clock, lock, probe>>

\* get_valid_access_token going on with the stored token after a failed refresh
refresh_access_token_failure_ignored(th, t, e) ==
    /\ pc[th] = "refresh"
    /\ \/ /\ SetLoc(th, [loc[th] EXCEPT
                    !.cr = Some([Unwrap(@) EXCEPT !.access_token = t, !.token_expiry = clock + e]),
                    !.tok = t])
          /\ Goto(th, "save")
       \/ /\ SetLoc(th, [loc[th] EXCEPT !.svcres = "Token refresh failed",
                                       !.tok = Unwrap(loc[th].cr).access_token])
          /\ Goto(th, "send")
    /\ UNCHANGED <<tasks, link, creds, remote, nextId, clock, lock, probe>>

\* a refresh that replaces the access token but keeps the old expiry
refresh_access_token_expiry_kept(th, t, e) ==
    /\ pc[th] = "refresh"
    /\ \/ /\ SetLoc(th, [loc[th] EXCEPT
                    !.cr = Some([Unwrap(@) EXCEPT !.access_token = t]),
                    !.tok = t])
          /\ Goto(th, "save")
       \/ /\ SetLoc(th, [loc[th] EXCEPT !.svcres = "Token refresh failed"])
          /\ Goto(th, "result")
    /\ UNCHANGED <<tasks, link, creds, remote, nextId, clock, lock, probe>>

\* google_oauth::refresh_access_token answers
refresh_access_token(th, t, e) ==
    /\ pc[th] = "refresh"
    /\ \/ /\ SetLoc(th, [loc[th] EXCEPT
                    !.cr = Some([Unwrap(@) EXCEPT !.access_token = t, !.token_expiry = clock + e]),
                    !.tok = t])
          /\ Goto(th, "save")
       \/ /\ SetLoc(th, [loc[th] EXCEPT !.svcres = "Token refresh failed"])
          /\ Goto(th, "result")
    /\ UNCHANGED <<tasks, link, creds, remote, nextId, clock, lock, probe>>

\* save_credentials of the refreshed copy
save_credentials(th) ==
    /\ pc[th] = "save"
    /\ creds' = loc[th].cr
    /\ Held(th, loc[th], "send")
    /\ UNCHANGED <<tasks, link, remote, nextId, clock, probe>>

\* ------------------------------------------------ google_calendar_api
\* the event request after a refresh
send_request(th) ==
    /\ pc[th] = "send"
    /\ SetLoc(th, [loc[th] EXCEPT !.calls = Append(@, Request(loc[th], clock))])
    /\ Goto(th, "http")
    /\ UNCHANGED <<tasks, link, creds, remote, nextId, clock, lock, probe>>

\* HTTP statuses the calendar answers with; NoAnswer is a transport error
NoAnswer == 0
HttpOk == 200
HttpNoContent == 204
HttpNotFound == 404
HttpGone == 410
HttpServerError == 500

is_success(status) == status >= 200 /\ status <= 299

\* what the calendar can answer about an event that exists / does not exist
CalendarAnswers(exists, okStatus) ==
    IF exists THEN {okStatus, HttpServerError, NoAnswer}
    ELSE {HttpNotFound, HttpGone, HttpServerError, NoAnswer}

\* create_calendar_event: send error, non-2xx, or the id of the created event
create_response(status) ==
    IF status = NoAnswer THEN "Failed to create calendar event"
    ELSE IF ~is_success(status) THEN "Failed to create event"
    ELSE "ok"

\* update_calendar_event: send error, 404/410, other non-2xx, or Ok
update_response(status) ==
    IF status = NoAnswer THEN "Failed to update calendar event"
    ELSE IF status = 404 \/ status = 410 THEN "EVENT_NOT_FOUND"
    ELSE IF ~is_success(status) THEN "Failed to update event"
    ELSE "ok"

\* delete_calendar_event without the 404/410 exemption
delete_response_strict(status) ==
    IF status = NoAnswer THEN "Failed to delete calendar event"
    ELSE IF ~is_success(status) THEN "Failed to delete event"
    ELSE "ok"

\* delete_calendar_event: send error, 404/410 is Ok, other non-2xx, or Ok
delete_response(status) ==
    IF status = NoAnswer THEN "Failed to delete calendar event"
    ELSE IF status = 404 \/ status = 410 THEN "ok"
    ELSE IF ~is_success(status) THEN "Failed to delete event"
    ELSE "ok"

Answer(th, status, r) ==
    /\ SetLoc(th, [loc[th] EXCEPT !.status = status, !.svcres = r])
    /\ Goto(th, "result")

\* POST .../events answers
create_calendar_event(th) ==
    /\ pc[th] = "http"
    /\ loc[th].kind = "create"
    /\ \E status \in {HttpOk, HttpServerError, NoAnswer} :
          IF is_success(status)
          THEN /\ nextId <= MaxEvents
               /\ remote' = [remote EXCEPT ![nextId] = TRUE]
               /\ nextId' = nextId + 1
               /\ SetLoc(th, [loc[th] EXCEPT !.status = status,
                                            !.svcres = create_response(status),
                                            !.newid = Some(nextId)])
               /\ Goto(th, "result")
          ELSE /\ Answer(th, status, create_response(status))
               /\ UNCHANGED <<remote, nextId>>
    /\ UNCHANGED <<tasks, link, creds, clock, lock, probe>>

\* update_calendar_event sending the request once more after a 5xx answer
update_calendar_event_retrying(th) ==
    /\ pc[th] = "http"
    /\ loc[th].kind = "update"
    /\ \E status \in CalendarAnswers(remote[Unwrap(loc[th].ev)], HttpOk) :
          IF status = HttpServerError /\ Len(loc[th].calls) < 3
          THEN /\ SetLoc(th, [loc[th] EXCEPT !.calls = Append(@, Request(loc[th], clock))])
               /\ UNCHANGED pc
          ELSE Answer(th, status, update_response(status))
    /\ UNCHANGED <<tasks, link, creds, remote, nextId, clock, lock, probe>>

\* PATCH .../events/{id} answers
update_calendar_event(th) ==
    /\ pc[th] = "http"
    /\ loc[th].kind = "update"
    /\ \E status \in CalendarAnswers(remote[Unwrap(loc[th].ev)], HttpOk) :
          Answer(th, status, update_response(status))
    /\ UNCHANGED <<tasks, link, creds, remote, nextId, clock, lock, probe>>

\* DELETE .../events/{id} answers
delete_calendar_event(th) ==
    /\ pc[th] = "http"
    /\ loc[th].kind = "delete"
    /\ LET e == Unwrap(loc[th].ev)
       IN  \E status \in CalendarAnswers(remote[e], HttpNoContent) :
              /\ Answer(th, status, delete_response(status))
              /\ remote' = IF is_success(status) THEN [remote EXCEPT ![e] = FALSE] ELSE remote
    /\ UNCHANGED <<tasks, link, creds, nextId, clock, lock, probe>>

\* start_oauth_flow: the flow itself is external, its credential is saved
start_oauth_flow(th, t, e) ==
    /\ pc[th] = "idle"
    /\ creds' = Some([email |-> "user@example.com", access_token |-> t,
                         refresh_token |-> "refresh", token_expiry |-> clock + e])
    /\ Held(th, [IdleLoc EXCEPT !.op = "start_oauth_flow", !.res = "ok"], "done")
    /\ UNCHANGED <<tasks, link, remote, nextId, clock, probe>>

\* disconnect_calendar removing the credential only
disconnect_calendar_keeping_links(th) ==
    /\ pc[th] = "idle"
    /\ creds' = None
    /\ Held(th, [IdleLoc EXCEPT !.op = "disconnect_calendar", !.res = "ok"], "done")
    /\ UNCHANGED <<tasks, link, remote, nextId, clock, probe>>

\* disconnect_calendar -> clear_calendar_credentials -> clear_all_calendar_events
disconnect_calendar(th) ==
    /\ pc[th] = "idle"
    /\ creds' = None
    /\ link' = [t \in TaskIds |-> None]
    /\ Held(th, [IdleLoc EXCEPT !.op = "disconnect_calendar", !.res = "ok"], "done")
    /\ UNCHANGED <<tasks, remote, nextId, clock, probe>>

\* the command returns to the front end
Return(th) ==
    /\ pc[th] = "done"
    /\ Goto(th, "idle")
    /\ SetLoc(th, IdleLoc)
    /\ UNCHANGED <<tasks, link, creds, remote, nextId, clock, lock, probe>>

\* ------------------------------------------------------------ environment
Tick ==
    /\ clock + TickStep <= MaxTime
    /\ clock' = clock + TickStep
    /\ UNCHANGED <<tasks, link, creds, remote, nextId, lock, pc, loc, probe>>

\* the user removes the event in Google Calendar
external_delete(e) ==
    /\ remote[e]
    /\ remote' = [remote EXCEPT ![e] = FALSE]
    /\ UNCHANGED <<tasks, link, creds, nextId, clock, lock, pc, loc, probe>>

\* ------------------------------------------------------------ payloads
OptOf(S) == {None} \cup {Some(x) : x \in S}

Payloads ==
    [title : {None}, notes : {None}, calendar_email : {None},
     deadline : OptOf(DeadlineStrings),
     has_calendar_integration : OptOf(BOOLEAN),
     reminder_frequency : OptOf(FrequencyStrings)]

Quiescent == \A th \in Threads : pc[th] = "idle"

\* a command begins on thread th
Begin(th, tokens, payloads) ==
    \/ \E id \in TaskIds : start_task(th, id)
    \/ \E id \in TaskIds : pause_task(th, id)
    \/ \E id \in TaskIds : resume_task(th, id)
    \/ \E id \in TaskIds : complete_task(th, id)
    \/ \E id \in TaskIds : delete_task(th, id)
    \/ \E id \in TaskIds, data \in payloads : update_task(th, id, data)
    \/ \E t \in tokens, e \in ExpiresIn : start_oauth_flow(th, t, e)
    \/ disconnect_calendar(th)

\* a running command takes its next step, or a remote call answers
Step(th, tokens) ==
    \/ DropGuard(th)
    \/ pause_resume_result(th)
    \/ complete_task_result(th)
    \/ delete_task_scope2(th)
    \/ update_task_result(th)
    \/ update_task_reread(th)
    \/ get_credentials(th)
    \/ get_valid_access_token(th)
    \/ \E t \in tokens, e \in ExpiresIn : refresh_access_token(th, t, e)
    \/ save_credentials(th)
    \/ send_request(th)
    \/ create_calendar_event(th)
    \/ update_calendar_event(th)
    \/ delete_calendar_event(th)
    \/ Return(th)

Env == \E e \in EventIds : external_delete(e)

\* one command at a time, all within one instant
Next ==
    \/ Quiescent /\ Begin(MainThread, {"tokA"}, Payloads) /\ UNCHANGED cmds
    \/ Step(MainThread, {"tokA"}) /\ UNCHANGED cmds
    \/ Env /\ UNCHANGED cmds

Spec == Init /\ [][Next]_vars

\* one command at a time with time passing: the commands whose remote
\* request or stored record depends on Utc::now()
TimedNext ==
    \/ \E id \in TaskIds : Quiescent /\ start_task(MainThread, id) /\ UNCHANGED cmds
    \/ \E id \in TaskIds : Quiescent /\ pause_task(MainThread, id) /\ UNCHANGED cmds
    \/ \E id \in TaskIds : Quiescent /\ resume_task(MainThread, id) /\ UNCHANGED cmds
    \/ \E id \in TaskIds, data \in Payloads : Quiescent /\ update_task(MainThread, id, data) /\ UNCHANGED cmds
    \/ \E t \in TokenValues, e \in ExpiresIn : Quiescent /\ start_oauth_flow(MainThread, t, e) /\ UNCHANGED cmds
    \/ DropGuard(MainThread) /\ UNCHANGED cmds
    \/ pause_resume_result(MainThread) /\ UNCHANGED cmds
    \/ update_task_result(MainThread) /\ UNCHANGED cmds
    \/ update_task_reread(MainThread) /\ UNCHANGED cmds
    \/ get_credentials(MainThread) /\ UNCHANGED cmds
    \/ get_valid_access_token(MainThread) /\ UNCHANGED cmds
    \/ \E t \in TokenValues, e \in ExpiresIn : refresh_access_token(MainThread, t, e) /\ UNCHANGED cmds
    \/ save_credentials(MainThread) /\ UNCHANGED cmds
    \/ send_request(MainThread) /\ UNCHANGED cmds
    \/ create_calendar_event(MainThread) /\ UNCHANGED cmds
    \/ update_calendar_event(MainThread) /\ UNCHANGED cmds
    \/ delete_calendar_event(MainThread) /\ UNCHANGED cmds
    \/ Return(MainThread) /\ UNCHANGED cmds
    \/ Tick /\ UNCHANGED cmds

TimedSpec == Init /\ [][TimedNext]_vars

\* the payloads that switch the integration on (with a deadline) and off
ConcPayloads ==
    {d \in Payloads : /\ d.reminder_frequency = None
                      /\ \/ d.deadline = Some("T+80") /\ d.has_calendar_integration = Some(TRUE)
                         \/ d.deadline = None /\ d.has_calendar_integration = Some(FALSE)}

\* ---------------------------------------- the reminder computation alone
ProbeFrequencies == {"", "none", "hourly", "every-3-hours", "daily", "weekly"}
ProbeDurations ==
    {-1500, -90, -1, 0, 59, 60, 61, 119, 120, 179, 180, 181, 240, 300, 359, 360,
     539, 540, 720, 900, 1439, 1440, 1441, 2880, 4320, 5760, 7200, 10000}
ProbeNows == {0, 45}

ReminderInit ==
    /\ tasks = [t \in TaskIds |-> IF t \in StoredIds THEN Some(Task_new("A", 0)) ELSE None]
    /\ link = [t \in TaskIds |-> None]
    /\ creds = None
    /\ remote = [e \in EventIds |-> FALSE]
    /\ nextId = 1
    /\ clock = 0
    /\ lock = "free"
    /\ pc = [th \in Threads |-> "idle"]
    /\ loc = [th \in Threads |-> IdleLoc]
    /\ cmds = 0
    /\ probe \in [fn : {"create", "update"}, freq : ProbeFrequencies,
                  deadline : {n + d : n \in ProbeNows, d \in ProbeDurations},
                  now : ProbeNows, out : {None}]

\* the reminder overrides of one request body
build_reminders ==
    /\ probe.out = None
    /\ probe' = [probe EXCEPT !.out =
            Some(IF probe.fn = "create"
                 THEN create_reminders(probe.freq, probe.deadline, probe.now)
                 ELSE update_reminders(probe.freq, probe.deadline, probe.now))]
    /\ UNCHANGED <<tasks, link, creds, remote, nextId, clock, lock, pc, loc, cmds>>

ReminderNext == build_reminders

ReminderSpec == ReminderInit /\ [][ReminderNext]_vars

\* update_task before and after start_task, with every field of the payload
\* varying and a reminder_frequency outside the four known values
FieldFrequencyStrings == {"hourly", "weekly"}

\* payloads that supply text fields, and payloads that supply calendar fields
FieldPayloads ==
    [title : {Some("B")}, notes : {None}, calendar_email : {Some("a@x")},
     deadline : {None}, has_calendar_integration : {None}, reminder_frequency : {None}]
    \cup
    [title : {None}, notes : {Some(""), Some("n")}, calendar_email : {None},
     deadline : {None}, has_calendar_integration : {None}, reminder_frequency : {None}]
    \cup
    [title : {None}, notes : {None}, calendar_email : {None},
     deadline : OptOf(DeadlineStrings),
     has_calendar_integration : OptOf(BOOLEAN),
     reminder_frequency : OptOf(FieldFrequencyStrings)]

FieldNext ==
    \/ \E id \in TaskIds, data \in FieldPayloads :
          Quiescent /\ update_task(MainThread, id, data) /\ UNCHANGED cmds
    \/ \E id \in StoredIds : Quiescent /\ start_task(MainThread, id) /\ UNCHANGED cmds
    \/ \E e \in ExpiresIn : Quiescent /\ start_oauth_flow(MainThread, "tokA", e) /\ UNCHANGED cmds
    \/ DropGuard(MainThread) /\ UNCHANGED cmds
    \/ update_task_result(MainThread) /\ UNCHANGED cmds
    \/ update_task_reread(MainThread) /\ UNCHANGED cmds
    \/ get_credentials(MainThread) /\ UNCHANGED cmds
    \/ get_valid_access_token(MainThread) /\ UNCHANGED cmds
    \/ \E e \in ExpiresIn : refresh_access_token(MainThread, "tokA", e) /\ UNCHANGED cmds
    \/ save_credentials(MainThread) /\ UNCHANGED cmds
    \/ send_request(MainThread) /\ UNCHANGED cmds
    \/ create_calendar_event(MainThread) /\ UNCHANGED cmds
    \/ update_calendar_event(MainThread) /\ UNCHANGED cmds
    \/ delete_calendar_event(MainThread) /\ UNCHANGED cmds
    \/ Return(MainThread) /\ UNCHANGED cmds

FieldSpec == Init /\ [][FieldNext]_vars

\* every interleaving of the commands of two threads
ConcNext ==
    \/ /\ cmds < MaxCmds
       /\ \E th \in Threads : Begin(th, {"tokA"}, ConcPayloads)
       /\ cmds' = cmds + 1
    \/ (\E th \in Threads : Step(th, {"tokA"})) /\ UNCHANGED cmds
    \/ Env /\ UNCHANGED cmds

ConcSpec == Init /\ [][ConcNext]_vars


\* the application starts on the database file an earlier run left behind:
\* nothing yet, or a connected calendar and a started task that has its event,
\* which may have been removed from the calendar meanwhile
RestartInit ==
    \/ Init
    \/ /\ \E e \in ExpiresIn :
             creds = Some([email |-> "user@example.com", access_token |-> "tokA",
                           refresh_token |-> "refresh", token_expiry |-> e])
       /\ tasks = [t \in TaskIds |->
                     IF t \in StoredIds
                     THEN Some([Task_new("B", 0) EXCEPT
                                   !.notes = Some("n"), !.calendar_email = Some("a@x"),
                                   !.status = "ongoing", !.started_at = Some(0),
                                   !.deadline = Some(80), !.has_calendar_integration = TRUE,
                                   !.reminder_frequency = "hourly"])
                     ELSE None]
       /\ link = [t \in TaskIds |-> IF t \in StoredIds THEN Some(1) ELSE None]
       /\ \E there \in BOOLEAN : remote = [e \in EventIds |-> e = 1 /\ there]
       /\ nextId = 2
       /\ clock = 0
       /\ lock = "free"
       /\ pc = [th \in Threads |-> "idle"]
       /\ loc = [th \in Threads |-> IdleLoc]
       /\ probe = NoProbe
       /\ cmds = 0

\* one command per thread, begun at any moment of the other thread's command
LiveNext ==
    \/ /\ cmds < Cardinality(Threads)
       /\ \E th \in Threads : Begin(th, {"tokA"}, ConcPayloads)
       /\ cmds' = cmds + 1
    \/ (\E th \in Threads : Step(th, {"tokA"})) /\ UNCHANGED cmds

\* the scheduling the runtime gives: a thread that can run gets to run, and a
\* request that was sent gets its answer or its error
LiveSpec ==
    /\ RestartInit
    /\ [][LiveNext]_vars
    /\ \A th \in Threads : WF_vars(Step(th, {"tokA"}) /\ UNCHANGED cmds)

\* pause_task and update_task from two threads on the database an earlier run
\* left behind, MaxCmds commands in all
HealNext ==
    \/ /\ cmds < MaxCmds
       /\ \E th \in Threads, id \in StoredIds :
             \/ pause_task(th, id)
             \/ \E data \in ConcPayloads : update_task(th, id, data)
       /\ cmds' = cmds + 1
    \/ /\ \E th \in Threads :
             \/ DropGuard(th)
             \/ pause_resume_result(th)
             \/ update_task_result(th)
             \/ update_task_reread(th)
             \/ get_credentials(th)
             \/ get_valid_access_token(th)
             \/ \E e \in ExpiresIn : refresh_access_token(th, "tokA", e)
             \/ save_credentials(th)
             \/ send_request(th)
             \/ create_calendar_event(th)
             \/ update_calendar_event(th)
             \/ delete_calendar_event(th)
             \/ Return(th)
       /\ UNCHANGED cmds

\* the store of a connected account at start-up
HealInit == RestartInit /\ IsSome(creds)

HealSpec == HealInit /\ [][HealNext]_vars

\* the status commands and delete_task, one at a time, on a store that
\* holds a task with every column set and a linked event
FrameNext ==
    \/ /\ Quiescent
       /\ \E id \in TaskIds :
             \/ start_task(MainThread, id)
             \/ pause_task(MainThread, id)
             \/ resume_task(MainThread, id)
             \/ complete_task(MainThread, id)
             \/ delete_task(MainThread, id)
       /\ UNCHANGED cmds
    \/ /\ \/ DropGuard(MainThread)
          \/ pause_resume_result(MainThread)
          \/ complete_task_result(MainThread)
          \/ delete_task_scope2(MainThread)
          \/ get_credentials(MainThread)
          \/ get_valid_access_token(MainThread)
          \/ \E e \in ExpiresIn : refresh_access_token(MainThread, "tokA", e)
          \/ save_credentials(MainThread)
          \/ send_request(MainThread)
          \/ update_calendar_event(MainThread)
          \/ delete_calendar_event(MainThread)
          \/ Return(MainThread)
       /\ UNCHANGED cmds
    \/ Env /\ UNCHANGED cmds

FrameSpec == RestartInit /\ [][FrameNext]_vars

\* every command, one at a time, with payloads that carry each kind of
\* deadline text: omitted, two instants, unparseable
DeadlinePayloads ==
    [title : {None}, notes : {None}, calendar_email : {None},
     deadline : OptOf({"T+80", "T+200", "garbage"}),
     has_calendar_integration : {None, Some(TRUE)},
     reminder_frequency : {None}]

DeadlineNext ==
    \/ Quiescent /\ Begin(MainThread, {"tokA"}, DeadlinePayloads) /\ UNCHANGED cmds
    \/ Step(MainThread, {"tokA"}) /\ UNCHANGED cmds
    \/ Env /\ UNCHANGED cmds

DeadlineSpec == Init /\ [][DeadlineNext]_vars

\* ------------------------------------------------------------ properties
Done(th, opname) == pc[th] = "done" /\ loc[th].op = opname
Row(id) == Unwrap(tasks[id])
EventCalls(th) == SelectSeq(loc[th].calls, LAMBDA c : c.kind # "refresh")
RefreshCalls(th) == SelectSeq(loc[th].calls, LAMBDA c : c.kind = "refresh")
InFlight(th) == pc[th] \in {"refresh", "http"}

\* C1: when complete_task returns for a task that had a linked event id, the
\* task has no linked event id, whatever the remote delete answered.
C1_CompletionAlwaysDetaches ==
    \A th \in Threads :
        (Done(th, "complete_task") /\ IsSome(loc[th].ev)) => link[loc[th].id] = None

\* C2: when the update call of pause_task, resume_task or update_task answers
\* not-found, the command returns success and the task has no linked event id.
C2_SelfHeal ==
    \A th \in Threads :
        ( /\ pc[th] = "done"
          /\ loc[th].op \in {"pause_task", "resume_task", "update_task"}
          /\ loc[th].kind = "update"
          /\ loc[th].svcres = "EVENT_NOT_FOUND" )
        => (link[loc[th].id] = None /\ loc[th].res = "ok")

C2_Witness ==
    \E th \in Threads :
        /\ Done(th, "update_task")
        /\ IsSome(loc[th].ev)
        /\ loc[th].svcres = "EVENT_NOT_FOUND"
        /\ link[loc[th].id] = None

\* C3 as stated: start_task on a task with a linked event id and a deadline
\* makes one remote update call carrying the task's reminder frequency.
C3_StartRestoresReminders ==
    \A th \in Threads :
        ( /\ Done(th, "start_task")
          /\ loc[th].res = "ok"
          /\ loc[th].from = "not-started"
          /\ IsSome(link[loc[th].id])
          /\ IsSome(Row(loc[th].id).deadline) )
        => ( /\ loc[th].svcs = <<"update">>
             /\ loc[th].freq = resume_frequency(from_row(Row(loc[th].id))) )

\* C3 amended: start_task makes no remote call and leaves the linked event id
\* as it is; the update carrying the task's reminder frequency is made by
\* resume_task alone, once, when a linked event id and a deadline exist.
C3_StartMakesNoRemoteCall ==
    \A th \in Threads :
        /\ (pc[th] \in {"held", "done"} /\ loc[th].op = "start_task")
              => (loc[th].svcs = <<>> /\ loc[th].calls = <<>> /\ loc[th].nxt = "done")
        /\ (Done(th, "resume_task") /\ IsSome(loc[th].ev) /\ IsSome(loc[th].dl))
              => ( /\ loc[th].svcs = <<"update">>
                   /\ loc[th].freq =
                        String_from_ReminderFrequency(
                            ReminderFrequency_from_str(Row(loc[th].id).reminder_frequency)) )

C3_Witness ==
    \E th \in Threads :
        /\ Done(th, "start_task")
        /\ loc[th].res = "ok"
        /\ loc[th].from = "not-started"
        /\ IsSome(link[loc[th].id])
        /\ remote[Unwrap(link[loc[th].id])]
        /\ IsSome(Row(loc[th].id).deadline)
        /\ Row(loc[th].id).reminder_frequency = "hourly"

\* C4: pause_task on a task with a deadline and linked event E issues exactly
\* one calendar call, an update of E with an empty reminder list; when it
\* succeeds the task is paused, paused_at is the instant of the call and the
\* linked event id is still E.
C4_PauseSuppressesReminders ==
    \A th \in Threads :
        (Done(th, "pause_task") /\ IsSome(loc[th].ev) /\ IsSome(loc[th].dl)) =>
            /\ loc[th].svcs = <<"update">>
            /\ Len(EventCalls(th)) <= 1
            /\ \A i \in 1..Len(EventCalls(th)) :
                  EventCalls(th)[i] = [kind |-> "update", ev |-> loc[th].ev, reminders |-> <<>>]
            /\ loc[th].svcres = "ok" =>
                  /\ Len(EventCalls(th)) = 1
                  /\ loc[th].res = "ok"
                  /\ Row(loc[th].id).status = "paused"
                  /\ Row(loc[th].id).paused_at = Some(loc[th].now)
                  /\ link[loc[th].id] = loc[th].ev

C4_Witness ==
    \E th \in Threads :
        /\ Done(th, "pause_task")
        /\ loc[th].from = "ongoing"
        /\ loc[th].svcres = "ok"
        /\ loc[th].now > 0
        /\ Row(loc[th].id).reminder_frequency = "hourly"
        /\ Row(loc[th].id).paused_at = Some(loc[th].now)
        /\ EventCalls(th) = <<[kind |-> "update", ev |-> link[loc[th].id], reminders |-> <<>>]>>

\* the reminder list a fresh update with the stored frequency produces at instant t
FreshReminders(id, t) ==
    update_reminders(
        String_from_ReminderFrequency(ReminderFrequency_from_str(Row(id).reminder_frequency)),
        Unwrap(Row(id).deadline), t)

\* C5: resuming a paused task (linked event and deadline present, update
\* succeeding) sends an update whose reminder list is the one the stored
\* frequency gives for the time to deadline at the moment of the resume.
C5_ResumeRestoresReminders ==
    \A th \in Threads :
        ( /\ Done(th, "resume_task")
          /\ loc[th].from = "paused"
          /\ IsSome(loc[th].ev)
          /\ IsSome(loc[th].dl)
          /\ loc[th].svcres = "ok" )
        => /\ Len(EventCalls(th)) = 1
           /\ EventCalls(th)[1].kind = "update"
           /\ EventCalls(th)[1].ev = loc[th].ev
           /\ \E t \in loc[th].now..clock :
                  EventCalls(th)[1].reminders = FreshReminders(loc[th].id, t)

C5_Witness ==
    \E th \in Threads :
        /\ Done(th, "resume_task")
        /\ loc[th].from = "paused"
        /\ loc[th].svcres = "ok"
        /\ Row(loc[th].id).paused_at = Some(0)
        /\ loc[th].now > 0
        /\ Row(loc[th].id).reminder_frequency = "hourly"
        /\ EventCalls(th)[1].reminders = <<EmailReminder>>
        /\ FreshReminders(loc[th].id, 0) = <<[method |-> "popup", minutes |-> 60], EmailReminder>>


\* C6 as stated: the reminder list is empty whenever the frequency is the
\* empty string or "none".
C6_EmptyOrNoneYieldsNoReminders ==
    (IsSome(probe.out) /\ probe.freq \in {"", "none"}) => Unwrap(probe.out) = <<>>

\* C6 amended: the reminder list is empty for the empty string; for "none"
\* (as for any other non-empty value that is not a known frequency) it holds
\* no popup reminder but still the one email reminder at 60 minutes.
C6_OnlyEmptyStringYieldsNoReminders ==
    IsSome(probe.out) =>
        /\ probe.freq = "" => Unwrap(probe.out) = <<>>
        /\ probe.freq \in {"none", "weekly"} => Unwrap(probe.out) = <<EmailReminder>>

C6_Witness ==
    /\ probe.fn = "update"
    /\ probe.freq = "none"
    /\ probe.deadline - probe.now = 240
    /\ probe.out = Some(<<[method |-> "email", minutes |-> 60]>>)

\* C7: update_task that switches the integration on for a task without a
\* linked event, the task ending up with a deadline, issues exactly one
\* calendar call, a create, and when it succeeds the linked event id is the
\* id that create returned.
C7_CreateOnEnable ==
    \A th \in Threads :
        ( /\ Done(th, "update_task")
          /\ ~loc[th].was_enabled
          /\ loc[th].ev = None
          /\ loc[th].enabled
          /\ IsSome(loc[th].dl) )
        => /\ loc[th].svcs = <<"create">>
           /\ Len(EventCalls(th)) <= 1
           /\ \A i \in 1..Len(EventCalls(th)) : EventCalls(th)[i].kind = "create"
           /\ loc[th].svcres = "ok" =>
                 /\ Len(EventCalls(th)) = 1
                 /\ IsSome(loc[th].newid)
                 /\ link[loc[th].id] = loc[th].newid

C7_Witness ==
    \E th \in Threads :
        /\ Done(th, "update_task")
        /\ ~loc[th].was_enabled
        /\ loc[th].ev = None
        /\ loc[th].enabled
        /\ loc[th].svcres = "ok"
        /\ loc[th].newid = Some(2)
        /\ link[loc[th].id] = Some(2)

\* C8: update_task that switches the integration off for a task with a linked
\* event issues exactly one calendar call, a delete of that event, and leaves
\* the task without a linked event id whether the delete succeeded or failed.
C8_DisableClearsLink ==
    \A th \in Threads :
        ( /\ Done(th, "update_task")
          /\ loc[th].was_enabled
          /\ IsSome(loc[th].ev)
          /\ ~loc[th].enabled )
        => /\ loc[th].svcs = <<"delete">>
           /\ Len(EventCalls(th)) <= 1
           /\ \A i \in 1..Len(EventCalls(th)) :
                 EventCalls(th)[i].kind = "delete" /\ EventCalls(th)[i].ev = loc[th].ev
           /\ loc[th].svcres = "ok" => Len(EventCalls(th)) = 1
           /\ link[loc[th].id] = None

C8_Witness ==
    \E th \in Threads :
        /\ Done(th, "update_task")
        /\ loc[th].was_enabled
        /\ IsSome(loc[th].ev)
        /\ IsSome(loc[th].dl)
        /\ ~loc[th].enabled
        /\ loc[th].svcres = "Failed to delete event"
        /\ remote[Unwrap(loc[th].ev)]
        /\ link[loc[th].id] = None

\* C9: when update_task takes the create path and the create fails for any
\* reason, update_task returns the error, the task has no linked event id and
\* the row keeps the values the payload wrote.
C9_CreateFailureSurfaces ==
    \A th \in Threads :
        ( /\ Done(th, "update_task")
          /\ loc[th].kind = "create"
          /\ loc[th].svcres # "ok" )
        => /\ loc[th].res = "Failed to create calendar event"
           /\ link[loc[th].id] = None
           /\ Row(loc[th].id).has_calendar_integration
           /\ Row(loc[th].id).deadline = loc[th].dl
           /\ ReminderFrequency_from_str(Row(loc[th].id).reminder_frequency)
                 = ReminderFrequency_from_str(loc[th].freq)

C9_Witness ==
    \E th \in Threads :
        /\ Done(th, "update_task")
        /\ loc[th].kind = "create"
        /\ loc[th].svcres = "Failed to create event"
        /\ loc[th].res = "Failed to create calendar event"
        /\ ~loc[th].was_enabled
        /\ Row(loc[th].id).has_calendar_integration
        /\ Row(loc[th].id).reminder_frequency = "hourly"
        /\ link[loc[th].id] = None

\* C10: no thread holds the connection mutex while a remote call it issued
\* (token refresh, event create, update or delete) is in flight.
C10_NoRemoteCallUnderLock ==
    \A th \in Threads : InFlight(th) => lock # th

C10_Witness ==
    \E a \in Threads, b \in Threads :
        /\ a # b
        /\ pc[a] = "http"
        /\ lock = b
        /\ pc[b] = "held"

\* C11: get_valid_access_token sends a refresh request exactly when the
\* stored expiry minus the current time is below 5 minutes; otherwise it goes
\* on with the stored access token, no refresh request and the credential
\* record untouched.
C11_RefreshBoundary ==
    [][\A th \in Threads :
          (pc[th] = "token" /\ pc'[th] # "token" /\ IsSome(loc[th].cr))
          => LET remaining == Unwrap(loc[th].cr).token_expiry - clock
             IN  /\ (pc'[th] = "refresh") <=> (remaining < 5)
                 /\ (pc'[th] = "http") <=> (remaining >= 5)
                 /\ pc'[th] = "refresh" => Len(RefreshCalls(th)') = 1
                 /\ pc'[th] = "http" =>
                       /\ RefreshCalls(th)' = <<>>
                       /\ loc'[th].tok = Unwrap(loc[th].cr).access_token
                       /\ creds' = creds]_vars

C11_Witness ==
    \E th \in Threads :
        /\ pc[th] = "http"
        /\ RefreshCalls(th) = <<>>
        /\ loc[th].now = clock
        /\ clock > 0
        /\ Unwrap(loc[th].cr).token_expiry - clock = 5
        /\ creds = loc[th].cr

\* C12: when the refresh request fails, get_valid_access_token returns the
\* error, the stored credential is the one that was read before the request,
\* and no event request follows.
C12_RefreshFailureKeepsCredential ==
    \A th \in Threads :
        loc[th].svcres = "Token refresh failed"
        => /\ pc[th] \notin {"refresh", "save", "send", "http"}
           /\ IsSome(loc[th].cr)
           /\ creds = loc[th].cr
           /\ Len(RefreshCalls(th)) = 1
           /\ EventCalls(th) = <<>>

C12_Witness ==
    \E th \in Threads :
        /\ Done(th, "resume_task")
        /\ loc[th].svcres = "Token refresh failed"
        /\ IsSome(creds)
        /\ Unwrap(creds).access_token = "tokA"
        /\ Unwrap(creds).token_expiry = 4
        /\ loc[th].calls = <<RefreshRequest>>

\* C13: when no credential is stored, get_valid_access_token fails with
\* "No calendar credentials found" and neither a refresh request nor an event
\* request of create/update/delete_task_calendar_event is sent.
C13_NotConnectedMakesNoRequest ==
    \A th \in Threads :
        ( /\ loc[th].svcs # <<>>
          /\ loc[th].cr = None
          /\ pc[th] # "token"
          /\ ~(pc[th] = "held" /\ loc[th].nxt = "token") )
        => /\ loc[th].svcres = "No calendar credentials found"
           /\ loc[th].calls = <<>>
           /\ loc[th].newid = None

C13_Witness ==
    \E th \in Threads :
        /\ Done(th, "update_task")
        /\ loc[th].svcs = <<"create">>
        /\ creds = None
        /\ loc[th].svcres = "No calendar credentials found"
        /\ loc[th].calls = <<>>

\* C14: a successful refresh yields a credential with the new access token,
\* expiry = time of the answer + expires_in and the old email and refresh
\* token; that credential is what save_credentials stores, and the token
\* handed to the caller is the stored access token.
C14_RefreshPersistsNewToken ==
    [][\A th \in Threads :
          /\ (pc[th] = "refresh" /\ pc'[th] = "save")
             => LET old == Unwrap(loc[th].cr)
                    new == Unwrap(loc'[th].cr)
                IN  /\ new.email = old.email
                    /\ new.refresh_token = old.refresh_token
                    /\ new.access_token \in TokenValues
                    /\ (new.token_expiry - clock) \in ExpiresIn
                    /\ loc'[th].tok = new.access_token
          /\ (pc[th] = "save" /\ pc'[th] # "save")
             => /\ creds' = loc[th].cr
                /\ loc'[th].tok = Unwrap(creds').access_token]_vars

C14_Witness ==
    \E th \in Threads :
        /\ pc[th] = "send"
        /\ Len(RefreshCalls(th)) = 1
        /\ IsSome(creds)
        /\ Unwrap(creds).token_expiry = 65
        /\ Unwrap(creds).access_token = "tokB"
        /\ Unwrap(creds).refresh_token = "refresh"
        /\ loc[th].tok = "tokB"

\* C15: delete_calendar_event reports success exactly for a 2xx answer and
\* for 404 / 410, so a delete of an event that is already gone succeeds; any
\* other status and a request without answer are failures.
C15_DeleteIsIdempotent ==
    \A th \in Threads :
        ( /\ loc[th].kind = "delete"
          /\ Len(EventCalls(th)) = 1
          /\ pc[th] # "http" )
        => /\ (loc[th].svcres = "ok")
                <=> (is_success(loc[th].status) \/ loc[th].status \in {404, 410})
           /\ loc[th].svcres # "ok"
                => loc[th].svcres \in {"Failed to delete event", "Failed to delete calendar event"}

C15_Witness ==
    \E th \in Threads :
        /\ Done(th, "update_task")
        /\ loc[th].kind = "delete"
        /\ loc[th].status = 410
        /\ loc[th].svcres = "ok"
        /\ ~remote[Unwrap(loc[th].ev)]

\* C16: pause_task, resume_task, complete_task and delete_task return
\* success when their calendar call failed for a reason other than not-found,
\* and the status write or the deletion of the row is in place.
C16_BestEffortRemote ==
    \A th \in Threads :
        ( /\ pc[th] = "done"
          /\ loc[th].op \in {"pause_task", "resume_task", "complete_task", "delete_task"}
          /\ loc[th].svcs # <<>>
          /\ loc[th].svcres \notin {"ok", "EVENT_NOT_FOUND"} )
        => /\ loc[th].res = "ok"
           /\ loc[th].op = "pause_task" => StatusOf(tasks, loc[th].id) = "paused"
           /\ loc[th].op = "resume_task" => StatusOf(tasks, loc[th].id) = "ongoing"
           /\ loc[th].op = "complete_task" => StatusOf(tasks, loc[th].id) = "completed"
           /\ loc[th].op = "delete_task" => tasks[loc[th].id] = None

C16_Witness ==
    \E th \in Threads :
        /\ Done(th, "delete_task")
        /\ loc[th].svcres = "Token refresh failed"
        /\ loc[th].res = "ok"
        /\ tasks[loc[th].id] = None
        /\ remote[Unwrap(loc[th].ev)]

\* C17: one invocation of a task command calls the calendar service at most
\* once, sends at most one event request and at most one refresh request; a
\* failed request is not sent again.
C17_SingleAttempt ==
    \A th \in Threads :
        /\ Len(loc[th].svcs) <= 1
        /\ Len(EventCalls(th)) <= 1
        /\ Len(RefreshCalls(th)) <= 1
        /\ loc[th].op = "start_task" => loc[th].calls = <<>>

C17_Witness ==
    \E th \in Threads :
        /\ Done(th, "pause_task")
        /\ loc[th].status = 500
        /\ loc[th].svcres = "Failed to update event"
        /\ Len(RefreshCalls(th)) = 1
        /\ Len(EventCalls(th)) = 1

\* C18: delete_task on an id without a row returns "Task not found", calls
\* the calendar service not at all, and no step of it changes a task row or a
\* linked event id.
C18_DeleteUnknownTask ==
    [][\A th \in Threads :
          /\ ( /\ pc[th] = "idle"
               /\ loc'[th].op = "delete_task"
               /\ tasks[loc'[th].id] = None )
             => /\ loc'[th].kind = ""
                /\ loc'[th].nxt = "scope2"
                /\ tasks' = tasks
                /\ link' = link
          /\ ( /\ loc[th].op = "delete_task"
               /\ loc[th].res = ""
               /\ tasks[loc[th].id] = None )
             => /\ tasks' = tasks
                /\ link' = link
                /\ loc'[th].svcs = <<>>
                /\ loc'[th].calls = <<>>
                /\ loc'[th].res \in {"", "Task not found"}
                /\ (pc[th] = "scope2" /\ pc'[th] # "scope2")
                      => loc'[th].res = "Task not found"]_vars

C18_Witness ==
    \E th \in Threads :
        /\ Done(th, "delete_task")
        /\ loc[th].id = "t2"
        /\ loc[th].res = "Task not found"
        /\ loc[th].calls = <<>>
        /\ IsSome(tasks["t1"])
        /\ IsSome(link["t1"])

\* C19: every change of a task's status follows an edge of the lifecycle:
\* not-started -> ongoing, paused -> ongoing, ongoing -> paused,
\* non-completed -> completed.
C19_StatusFollowsLifecycle ==
    [][\A id \in TaskIds :
          (IsSome(tasks[id]) /\ IsSome(tasks'[id]) /\ Row(id).status # Row(id)'.status)
          => <<Row(id).status, Row(id)'.status>> \in
                {<<"not-started", "ongoing">>, <<"paused", "ongoing">>,
                 <<"ongoing", "paused">>, <<"not-started", "completed">>,
                 <<"ongoing", "completed">>, <<"paused", "completed">>}]_vars

\* C20: the status of every stored task agrees with its timestamps, and a
\* new task is not-started without any of the three timestamps.
C20_StatusAgreesWithTimestamps ==
    /\ \A id \in TaskIds :
          IsSome(tasks[id]) =>
             /\ Row(id).status \in {"not-started", "ongoing", "paused", "completed"}
             /\ Row(id).status = "completed" => IsSome(Row(id).completed_at)
             /\ Row(id).status = "paused" => IsSome(Row(id).paused_at)
             /\ Row(id).status = "ongoing" => IsSome(Row(id).started_at)
    /\ LET fresh == Task_new("A", clock)
       IN  /\ fresh.status = "not-started"
           /\ fresh.started_at = None
           /\ fresh.paused_at = None
           /\ fresh.completed_at = None

C20_Witness ==
    \E th \in Threads :
        /\ Done(th, "complete_task")
        /\ loc[th].from = "paused"
        /\ Row(loc[th].id).status = "completed"
        /\ IsSome(Row(loc[th].id).started_at)
        /\ IsSome(Row(loc[th].id).paused_at)
        /\ IsSome(Row(loc[th].id).completed_at)

\* C21: update_task with a reminder_frequency outside none / hourly /
\* every-3-hours / daily returns an error, sends nothing to the calendar and
\* stores nothing of it in the task row.
C21_InvalidFrequencyRejected ==
    \A th \in Threads :
        ( /\ loc[th].op = "update_task"
          /\ loc[th].freq # ""
          /\ loc[th].freq \notin {"none", "hourly", "every-3-hours", "daily"} )
        => /\ loc[th].calls = <<>>
           /\ Row(loc[th].id).reminder_frequency \in {"none", "hourly", "every-3-hours", "daily"}
           /\ pc[th] = "done" => loc[th].res # "ok"

\* C22: update_task on a stored task with a deadline string that is no instant returns
\* "Invalid deadline format"; no step of the command writes a task row or a
\* linked event id or sends a request, and the command ends without the
\* connection guard.
C22_InvalidDeadlineRejected ==
    [][\A th \in Threads :
          /\ \A id \in StoredIds, data \in Payloads :
                (data.deadline = Some("garbage") /\ IsSome(tasks[id]) /\ pc'[th] = "held"
                 /\ update_task(th, id, data))
                => /\ loc'[th].res = "Invalid deadline format"
                   /\ loc'[th].nxt = "done"
                   /\ loc'[th].svcs = <<>>
                   /\ tasks' = tasks
                   /\ link' = link
          /\ loc[th].res = "Invalid deadline format"
                => /\ tasks' = tasks
                   /\ link' = link
                   /\ remote' = remote \/ pc'[th] = pc[th]
                   /\ loc'[th].calls = <<>>
                   /\ pc'[th] \in {"held", "done", "idle"}
                   /\ pc'[th] = "done" => lock' # th]_vars

C22_Witness ==
    \E th \in Threads :
        /\ Done(th, "update_task")
        /\ loc[th].res = "Invalid deadline format"
        /\ lock = "free"
        /\ IsSome(link[loc[th].id])
        /\ Row(loc[th].id).has_calendar_integration
        /\ Row(loc[th].id).deadline = Some(80)

\* C23: a linked event id is always an id the calendar issued, and the only
\* step that stores one is update_task after its own create for that task
\* answered with success; no other command stores a linked event id.
C23_LinkComesFromCreate ==
    [][\A id \in TaskIds :
          /\ IsSome(link'[id]) => Unwrap(link'[id]) \in 1..(nextId' - 1)
          /\ (IsSome(link'[id]) /\ link'[id] # link[id])
                => \E th \in Threads :
                      /\ pc[th] = "result"
                      /\ loc[th].op = "update_task"
                      /\ loc[th].id = id
                      /\ loc[th].kind = "create"
                      /\ loc[th].svcres = "ok"
                      /\ loc[th].newid = link'[id]
                      /\ EventCalls(th)[Len(EventCalls(th))].kind = "create"]_vars

C23_Witness ==
    \E th \in Threads, other \in Threads :
        /\ Done(th, "update_task")
        /\ loc[th].kind = "create"
        /\ loc[th].svcres = "ok"
        /\ link[loc[th].id] = loc[th].newid
        /\ other # th
        /\ loc[other].op \in {"pause_task", "resume_task", "start_task", "complete_task", "delete_task"}
        /\ pc[other] # "idle"

\* C24: for a non-empty frequency the reminder list is at most four popups
\* followed by exactly one email at 60 minutes; for hourly, every-3-hours and
\* daily the number of popups is min(4, max(0, whole intervals of 60, 180 or
\* 1440 minutes left until the deadline)), the k-th popup is k intervals
\* before the deadline, and a deadline that has passed gives no popup.
C24_ReminderList ==
    (IsSome(probe.out) /\ probe.freq # "")
    => LET out == Unwrap(probe.out)
           left == probe.deadline - probe.now
           interval == CASE probe.freq = "hourly" -> 60
                         [] probe.freq = "every-3-hours" -> 180
                         [] probe.freq = "daily" -> 1440
                         [] OTHER -> 0
           whole == IF left <= 0 \/ interval = 0 THEN 0 ELSE left \div interval
           count == IF whole > 4 THEN 4 ELSE whole
       IN  /\ Len(out) = count + 1
           /\ Len(out) <= 5
           /\ out[Len(out)] = [method |-> "email", minutes |-> 60]
           /\ \A k \in 1..count : out[k] = [method |-> "popup", minutes |-> k * interval]
           /\ left <= 0 => Len(out) = 1

C24_Witness ==
    /\ IsSome(probe.out)
    /\ probe.freq = "every-3-hours"
    /\ probe.deadline - probe.now = 539
    /\ Len(Unwrap(probe.out)) = 3
    /\ Unwrap(probe.out)[2].minutes = 360

\* C25: update_task on a task that had a linked event id, with integration
\* enabled and a deadline present after the write, calls the calendar update
\* once for that event id and never create or delete; the frequency it sends
\* is the payload's when supplied and the stored one otherwise; when the
\* update succeeds the linked event id is the one the task had.
C25_UpdateExistingEvent ==
    [][\A th \in Threads :
          /\ \A id \in StoredIds, data \in Payloads :
                ( /\ IsSome(tasks[id])
                  /\ IsSome(link[id])
                  /\ pc'[th] = "held"
                  /\ update_task(th, id, data)
                  /\ loc'[th].enabled
                  /\ IsSome(loc'[th].dl) )
                => /\ loc'[th].kind = "update"
                   /\ loc'[th].ev = link[id]
                   /\ loc'[th].freq = IF IsSome(data.reminder_frequency)
                                      THEN Unwrap(data.reminder_frequency)
                                      ELSE Row(id).reminder_frequency
          /\ ( /\ pc'[th] = "done"
               /\ loc'[th].op = "update_task"
               /\ IsSome(loc'[th].ev)
               /\ loc'[th].enabled
               /\ IsSome(loc'[th].dl) )
             => LET l == loc'[th]
                    sent == SelectSeq(l.calls, LAMBDA c : c.kind # "refresh")
                IN  /\ l.svcs = <<"update">>
                    /\ Len(sent) <= 1
                    /\ \A i \in 1..Len(sent) :
                          /\ sent[i].kind = "update"
                          /\ sent[i].ev = l.ev
                          /\ sent[i].reminders = update_reminders(l.freq, Unwrap(l.dl), clock')
                    /\ l.svcres = "ok" => (Len(sent) = 1 /\ link'[l.id] = l.ev /\ l.res = "ok")]_vars

C25_Witness ==
    \E th \in Threads :
        /\ Done(th, "update_task")
        /\ IsSome(loc[th].ev)
        /\ loc[th].enabled
        /\ IsSome(loc[th].dl)
        /\ loc[th].svcres = "ok"
        /\ loc[th].freq = "hourly"
        /\ Len(EventCalls(th)) = 1
        /\ EventCalls(th)[1].reminders = <<[method |-> "popup", minutes |-> 60], EmailReminder>>
        /\ link[loc[th].id] = loc[th].ev

\* C26: update_task that leaves the task with integration disabled and had no
\* linked event id, or with integration enabled and no deadline, calls no
\* calendar function, sends no request and leaves the linked event id as it was.
C26_NoSyncCases ==
    [][\A th \in Threads :
          /\ \A id \in StoredIds, data \in Payloads :
                ( /\ IsSome(tasks[id])
                  /\ pc'[th] = "held"
                  /\ update_task(th, id, data)
                  /\ loc'[th].res = ""
                  /\ \/ ~loc'[th].enabled /\ link[id] = None
                     \/ loc'[th].enabled /\ loc'[th].dl = None )
                => /\ loc'[th].kind = ""
                   /\ loc'[th].nxt = "reread"
                   /\ link' = link
          /\ (loc[th].op = "update_task" /\ loc[th].kind = "")
                => /\ link' = link
                   /\ remote' = remote \/ pc'[th] = pc[th]
                   /\ loc'[th].svcs = <<>>
                   /\ loc'[th].calls = <<>>
                   /\ pc'[th] \in {"held", "reread", "done", "idle"}]_vars

C26_Witness ==
    \E th \in Threads :
        /\ Done(th, "update_task")
        /\ loc[th].res = "ok"
        /\ loc[th].enabled
        /\ loc[th].dl = None
        /\ IsSome(creds)
        /\ loc[th].calls = <<>>
        /\ link[loc[th].id] = None

C30_UpdateFailureSwallowed ==
    \A th \in Threads :
        ( /\ Done(th, "update_task")
          /\ loc[th].kind = "update"
          /\ loc[th].svcres \notin {"ok", "EVENT_NOT_FOUND"} )
        => /\ loc[th].res = "ok"
           /\ link[loc[th].id] = loc[th].ev
           /\ IsSome(tasks[loc[th].id])
           /\ Row(loc[th].id).has_calendar_integration = loc[th].enabled
           /\ Row(loc[th].id).deadline = loc[th].dl

C30_Witness ==
    \E th \in Threads :
        /\ Done(th, "update_task")
        /\ loc[th].kind = "update"
        /\ loc[th].status = HttpServerError
        /\ loc[th].svcres \notin {"ok", "EVENT_NOT_FOUND"}
        /\ loc[th].res = "ok"
        /\ loc[th].freq = "hourly"
        /\ Row(loc[th].id).reminder_frequency = "hourly"
        /\ link[loc[th].id] = loc[th].ev

\* C27: update_task leaves every column whose field the payload omits, and
\* the status and the three status timestamps, as they were.
C27_OnlySuppliedFieldsChange ==
    [][\A th \in Threads, id \in StoredIds, data \in FieldPayloads :
          (pc'[th] = "held" /\ update_task(th, id, data))
          => LET old == Row(id)
                 new == Row(id)'
             IN  /\ IsSome(tasks'[id])
                 /\ data.title = None => new.title = old.title
                 /\ data.notes = None => new.notes = old.notes
                 /\ data.deadline = None => new.deadline = old.deadline
                 /\ data.has_calendar_integration = None
                       => new.has_calendar_integration = old.has_calendar_integration
                 /\ data.calendar_email = None => new.calendar_email = old.calendar_email
                 /\ data.reminder_frequency = None
                       => new.reminder_frequency = old.reminder_frequency
                 /\ new.status = old.status
                 /\ new.started_at = old.started_at
                 /\ new.paused_at = old.paused_at
                 /\ new.completed_at = old.completed_at
                 /\ \A t \in TaskIds \ {id} : tasks'[t] = tasks[t]]_vars

C27_Witness ==
    \E th \in Threads :
        /\ Done(th, "update_task")
        /\ loc[th].res = "ok"
        /\ IsSome(loc[th].ev)
        /\ Row(loc[th].id).title = "B"
        /\ Row(loc[th].id).notes = Some("n")
        /\ Row(loc[th].id).calendar_email = Some("a@x")
        /\ Row(loc[th].id).deadline = Some(80)
        /\ Row(loc[th].id).reminder_frequency = "hourly"
        /\ Row(loc[th].id).status = "ongoing"
        /\ Row(loc[th].id).started_at = Some(0)

\* C31: every command that has begun returns, and has released the connection
\* guard when it returns, whatever the other thread does meanwhile.
C31_CommandsTerminate ==
    \A th \in Threads : (pc[th] # "idle") ~> (pc[th] = "done" /\ lock # th)

C31_Witness ==
    \E th \in Threads, other \in Threads :
        /\ th # other
        /\ pc[th] = "held"
        /\ lock = th
        /\ loc[th].op \in {"pause_task", "update_task", "disconnect_calendar"}
        /\ pc[other] \in {"svc", "save", "result", "scope2", "reread"}
        /\ loc[other].op \in {"pause_task", "update_task", "delete_task"}

\* C32: when two update_task invocations on the same task both found no
\* linked event id and both leave the task enabled with a deadline, at most
\* one of them has a calendar event created for the task.
C32_AtMostOneCreate ==
    \A a \in Threads, b \in Threads :
        ( /\ a # b
          /\ loc[a].op = "update_task" /\ loc[b].op = "update_task"
          /\ loc[a].id = loc[b].id
          /\ loc[a].kind = "create" /\ loc[b].kind = "create"
          /\ loc[a].ev = None /\ loc[b].ev = None )
        => ~(IsSome(loc[a].newid) /\ IsSome(loc[b].newid))

\* C33: the self-heal of a command that read event id E and was answered
\* not-found leaves alone a linked event id that is no longer E.
C33_SelfHealOnlyClearsItsOwnEvent ==
    [][\A th \in Threads :
          ( /\ pc[th] = "result"
            /\ pc'[th] # "result"
            /\ loc[th].kind = "update"
            /\ loc[th].svcres = "EVENT_NOT_FOUND"
            /\ IsSome(link[loc[th].id])
            /\ link[loc[th].id] # loc[th].ev )
          => link'[loc[th].id] = link[loc[th].id]]_vars

\* C34: in every state, when no credential is stored no task has a linked
\* event id.
C34_NoCredentialNoLink ==
    creds = None => \A id \in TaskIds : link[id] = None

\* C35: while no credential is stored, the only step that stores one is the
\* save of a new OAuth flow; the save that follows a token refresh never
\* brings a credential back after disconnect_calendar removed it.
C35_OnlyOAuthRestoresCredential ==
    [][(creds = None /\ creds' # None)
          => \E th \in Threads : pc[th] = "idle" /\ loc'[th].op = "start_oauth_flow"]_vars

\* C36: disconnect_calendar leaves no credential and no linked event id,
\* sends no request to the calendar and changes no task row.
C36_DisconnectClearsLocalStateOnly ==
    [][\A th \in Threads :
          /\ (pc[th] = "idle" /\ pc'[th] = "held" /\ disconnect_calendar(th))
                => /\ creds' = None
                   /\ \A id \in TaskIds : link'[id] = None
                   /\ tasks' = tasks
                   /\ remote' = remote
                   /\ loc'[th].nxt = "done"
          /\ loc[th].op = "disconnect_calendar"
                => /\ tasks' = tasks
                   /\ link' = link
                   /\ creds' = creds
                   /\ remote' = remote \/ pc'[th] = pc[th]
                   /\ loc'[th].svcs = <<>>
                   /\ loc'[th].calls = <<>>
                   /\ pc'[th] \in {"held", "done", "idle"}]_vars

C36_Witness ==
    \E th \in Threads :
        /\ Done(th, "disconnect_calendar")
        /\ loc[th].res = "ok"
        /\ creds = None
        /\ \A id \in TaskIds : link[id] = None
        /\ remote[1] /\ remote[2]
        /\ Row("t1").has_calendar_integration
        /\ Row("t1").deadline = Some(80)
        /\ Row("t1").reminder_frequency = "hourly"
        /\ Row("t1").status = "paused"

\* C37: every update request that update_task sends for the linked event of a
\* task whose status is paused carries an empty reminder list.
C37_PausedTaskKeepsNoReminders ==
    \A th \in Threads :
        ( /\ loc[th].op = "update_task"
          /\ loc[th].kind = "update"
          /\ IsSome(tasks[loc[th].id])
          /\ Row(loc[th].id).status = "paused" )
        => \A i \in 1..Len(EventCalls(th)) :
              EventCalls(th)[i].kind = "update" => EventCalls(th)[i].reminders = <<>>

\* C38: no command running on a task whose status is completed sends a create
\* request or is handed a new event id to store.
C38_CompletedTaskGetsNoEvent ==
    \A th \in Threads :
        ( /\ pc[th] # "idle"
          /\ loc[th].id \in TaskIds
          /\ IsSome(tasks[loc[th].id])
          /\ Row(loc[th].id).status = "completed"
          /\ IsSome(Row(loc[th].id).completed_at) )
        => /\ \A i \in 1..Len(loc[th].calls) : loc[th].calls[i].kind # "create"
           /\ loc[th].newid = None

\* C39: start_task, pause_task, resume_task, complete_task and delete_task
\* never send a create request and never change the title, notes, deadline,
\* integration flag, calendar email or reminder frequency of a task; the
\* only event requests are update (pause, resume) and delete (complete,
\* delete), and start sends none.
C39_StatusCommandsFrame ==
    [][\A th \in Threads :
         loc'[th].op \in {"start_task", "pause_task", "resume_task",
                          "complete_task", "delete_task"}
         => /\ \A id \in TaskIds :
                 (IsSome(tasks[id]) /\ IsSome(tasks'[id]))
                 => LET old == Unwrap(tasks[id])
                        new == Unwrap(tasks'[id])
                    IN  /\ new.title = old.title
                        /\ new.notes = old.notes
                        /\ new.deadline = old.deadline
                        /\ new.has_calendar_integration = old.has_calendar_integration
                        /\ new.calendar_email = old.calendar_email
                        /\ new.reminder_frequency = old.reminder_frequency
            /\ loc'[th].kind # "create"
            /\ loc'[th].newid = None
            /\ nextId' = nextId
            /\ \A i \in 1..Len(loc'[th].calls) :
                 loc'[th].calls[i].kind \in
                     CASE loc'[th].op \in {"pause_task", "resume_task"} -> {"refresh", "update"}
                       [] loc'[th].op \in {"complete_task", "delete_task"} -> {"refresh", "delete"}
                       [] OTHER -> {}
            /\ \A i \in 1..Len(loc'[th].svcs) :
                 loc'[th].svcs[i] =
                     CASE loc'[th].op \in {"pause_task", "resume_task"} -> "update"
                       [] loc'[th].op \in {"complete_task", "delete_task"} -> "delete"
                       [] OTHER -> "none"]_vars

\* a pause that sent its update request returned, and the row still holds
\* every column it held before
C39_Witness ==
    \E th \in Threads :
        /\ Done(th, "pause_task")
        /\ loc[th].res = "ok"
        /\ \E i \in 1..Len(loc[th].calls) : loc[th].calls[i].kind = "update"
        /\ IsSome(tasks[loc[th].id])
        /\ Row(loc[th].id).status = "paused"
        /\ Row(loc[th].id).title = "B"
        /\ Row(loc[th].id).notes = Some("n")
        /\ Row(loc[th].id).calendar_email = Some("a@x")
        /\ Row(loc[th].id).deadline = Some(80)
        /\ Row(loc[th].id).has_calendar_integration
        /\ Row(loc[th].id).reminder_frequency = "hourly"

\* C40: no operation clears a deadline: a task that has a deadline still
\* has one after every step of every command that leaves the task stored,
\* and the deadline changes only in update_task, to the instant its payload
\* carries.
C40_DeadlineNeverCleared ==
    [][\A id \in TaskIds :
         (IsSome(tasks[id]) /\ IsSome(Unwrap(tasks[id]).deadline) /\ IsSome(tasks'[id]))
         => /\ IsSome(Unwrap(tasks'[id]).deadline)
            /\ Unwrap(tasks'[id]).deadline # Unwrap(tasks[id]).deadline
               => \E th \in Threads :
                     /\ pc[th] = "idle"
                     /\ loc'[th].op = "update_task"
                     /\ loc'[th].id = id
                     /\ loc'[th].dl = Unwrap(tasks'[id]).deadline]_vars

\* complete_task returned after removing the event of a task that was
\* started and paused before; the row still holds the second instant an
\* update_task gave it
C40_Witness ==
    \E th \in Threads :
        /\ Done(th, "complete_task")
        /\ loc[th].res = "ok"
        /\ loc[th].svcs = <<"delete">>
        /\ IsSome(tasks[loc[th].id])
        /\ Row(loc[th].id).status = "completed"
        /\ IsSome(Row(loc[th].id).started_at)
        /\ IsSome(Row(loc[th].id).paused_at)
        /\ Row(loc[th].id).deadline = Some(200)

====
